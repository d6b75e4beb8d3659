---------------------------- MODULE ComponentUpdate ----------------------------
(***************************************************************************)
(* The component updaters of YIO remote-os: app-update.sh,                 *)
(* app-plugin-update.sh and web-configurator-update.sh, one command after  *)
(* the other, with the error trap of common.bash, power cuts, retries, and *)
(* the restore of app-launch.sh.  The scripts have the same phases; the    *)
(* variable "component" says which one a behaviour is about.               *)
(***************************************************************************)
EXTENDS Naturals

CONSTANTS
    Components,   \* the components considered
    Files,        \* the top level entries of an installation
    Offers,       \* kinds of the archives offered
    MaxOffers,    \* bound: archives offered
    MaxFaults,    \* bound: commands that fail
    MaxCuts,      \* bound: power cuts
    NoDir,        \* there is no such directory
    NoArchive     \* there is no update archive

(***************************************************************************)
(* "plain" archives are as the wiki describes them.  A "damaged" one does  *)
(* not unpack or fails the checks; "prehook" and "posthook" come with      *)
(* hooks/pre-install.sh or hooks/post-install.sh; "relative" is named by a *)
(* relative path; "downloaded" was put into /tmp and does not survive a    *)
(* reboot.                                                                 *)
(***************************************************************************)
Kinds == {"plain", "damaged", "prehook", "posthook", "relative", "downloaded"}

\* A directory gives the version of each entry; Absent entries do not exist.
Absent   == 0
Dir      == [Files -> Nat]
EmptyDir == [f \in Files |-> Absent]
Archive  == [version : Nat \ {0}, kind : Kinds, files : (SUBSET Files) \ {{}}]

ASSUME ComponentsAssumption == Components \subseteq {"app", "plugin", "web"}
ASSUME OffersAssumption     == Offers \subseteq Kinds
ASSUME UpdateBounds         == MaxOffers \in Nat /\ MaxFaults \in Nat /\ MaxCuts \in Nat
ASSUME NoDirAssumption      == NoDir \notin Dir
ASSUME NoArchiveAssumption  == NoArchive \notin Archive

VARIABLES
    component,  \* "app", "plugin" or "web"
    \* persistent
    dir,        \* the installation directory
    upper,      \* dir lies in the upper layer of the /opt/yio overlay alone
    backup,     \* its ...-previous directory
    archive,    \* the update archive
    \* the running script and the service
    pc,         \* its next command; "idle", "off"
    tmp,        \* entries of this run in TMPDIR, not yet moved out of it
    remembered, \* start the service at the end (WEBSERVER_RUNNING)
    service,    \* app.service or lighttpd is running
    \* bounds
    offered,    \* latest version; 1 is the factory's
    faults, cuts,
    \* history, read by the properties only
    begun,      \* archive, dir and service when the last run began
    outcome,    \* how it ended: "none" yet, "failed", "success"
    disturbed,  \* one of its commands was made to fail
    lost        \* a reboot lost the archive of an unfinished installation

stored  == <<dir, upper, backup, archive>>
script  == <<pc, tmp, remembered>>
bounds  == <<offered, faults, cuts>>
history == <<begun, outcome, disturbed, lost>>
vars    == <<component, stored, script, service, bounds, history>>

\* The factory image has the directory in the lower layer of the overlay.
\* systemd starts the app; lighttpd is left to the app.
Init ==
    /\ component \in Components
    /\ dir = [f \in Files |-> 1] /\ upper = FALSE
    /\ backup = NoDir /\ archive = NoArchive
    /\ pc = "idle" /\ tmp = {} /\ remembered = FALSE
    /\ service = (component # "web")
    /\ offered = 1 /\ faults = 0 /\ cuts = 0
    /\ begun = [archive |-> NoArchive, dir |-> dir, service |-> service]
    /\ outcome = "none" /\ disturbed = FALSE /\ lost = FALSE

\* what mkdir -p makes of it
Content(d) == IF d = NoDir THEN EmptyDir ELSE d

\* Every entry is there and, but for plugins, which come one by one, all are
\* of the same version.
Complete(d) ==
    /\ d # NoDir
    /\ \A f \in Files : d[f] # Absent
    /\ component # "plugin" => \A f, g \in Files : d[f] = d[g]

\* the hooks and the change into TMPDIR are those of app and plugin only
Unpacks(a)  == a.kind # "damaged" /\ (a.kind = "prehook" => component = "web")
Finishes(a) == a.kind \in {"posthook", "relative"} => component = "web"

\* mutant: errorTrap leaves TMPDIR
FailKeepsTmp ==
    /\ pc' = "idle" /\ outcome' = "failed"
    /\ UNCHANGED <<component, stored, tmp, remembered, service, begun, lost>>

\* An error or an explicit exit ends the script; errorTrap removes TMPDIR.
Fail ==
    /\ pc' = "idle" /\ tmp' = {} /\ outcome' = "failed"
    /\ UNCHANGED <<component, stored, remembered, service, begun, lost>>

-----------------------------------------------------------------------------
(* The environment: archives, the app's switch for the web server *)

Offer ==
    /\ pc # "off" /\ archive = NoArchive /\ offered <= MaxOffers
    /\ offered' = offered + 1
    /\ \E kind \in Offers, files \in (SUBSET Files) \ {{}} :
          /\ component # "plugin" => files = Files
          /\ archive' = [version |-> offered', kind |-> kind, files |-> files]
    /\ UNCHANGED <<component, dir, upper, backup, script, service, faults, cuts, history>>

\* the user gives up on an archive while the installation is whole
Discard ==
    /\ pc = "idle" /\ outcome = "failed" /\ archive # NoArchive /\ Complete(dir)
    /\ archive' = NoArchive
    /\ UNCHANGED <<component, dir, upper, backup, script, service, bounds, history>>

SwitchWebServer ==
    /\ pc = "idle" /\ component = "web"
    /\ service' = ~service
    /\ UNCHANGED <<component, stored, script, bounds, history>>

-----------------------------------------------------------------------------
(* The script *)

Begin ==
    /\ pc = "idle" /\ archive # NoArchive
    /\ pc' = "unpack"
    /\ begun' = [archive |-> archive, dir |-> dir, service |-> service]
    /\ outcome' = "none" /\ disturbed' = FALSE
    /\ UNCHANGED <<component, stored, tmp, remembered, service, bounds, lost>>

\* mutant: the checks are left out
UnpackUnchecked ==
    /\ pc = "unpack"
    /\ tmp' = archive.files
    /\ pc' = "stop"
    /\ UNCHANGED <<component, stored, remembered, service, bounds, history>>

\* tar or unzip into TMPDIR, and the checks
Unpack ==
    /\ pc = "unpack" /\ Unpacks(archive)
    /\ tmp' = archive.files
    /\ pc' = "stop"
    /\ UNCHANGED <<component, stored, remembered, service, bounds, history>>

\* Refused, or the hook: tested as hooks/pre-install.sh, run as pre-install.sh.
UnpackFails ==
    /\ pc = "unpack" /\ ~Unpacks(archive)
    /\ Fail
    /\ UNCHANGED <<bounds, disturbed>>

\* mutant: the web server is looked up after it was stopped
StopForgets ==
    /\ pc = "stop" /\ component # "app"
    /\ service' = FALSE
    /\ remembered' = (component = "plugin")
    /\ pc' = "drop"
    /\ UNCHANGED <<component, stored, tmp, bounds, history>>

\* mutant: the service keeps running
StopSkipped ==
    /\ pc = "stop" /\ component # "app"
    /\ remembered' = (component = "plugin" \/ service)
    /\ pc' = "drop"
    /\ UNCHANGED <<component, stored, tmp, service, bounds, history>>

\* The plugin updater will start the app in any case.
StopService ==
    /\ pc = "stop" /\ component # "app"
    /\ remembered' = (component = "plugin" \/ service)
    /\ service' = FALSE
    /\ pc' = "drop"
    /\ UNCHANGED <<component, stored, tmp, bounds, history>>

\* app-update.sh does not source util.bash: no such command
StopServiceUnknown ==
    /\ pc = "stop" /\ component = "app"
    /\ Fail
    /\ UNCHANGED <<bounds, disturbed>>

\* "Skipping backup": also the old one stays
NothingToSave ==
    /\ pc = "drop" /\ dir = NoDir
    /\ pc' = "mkdir"
    /\ UNCHANGED <<component, stored, tmp, remembered, service, bounds, history>>

\* cp -r for plugins; mv, which renames unless a part of the directory is in
\* the lower layer (no redirect_dir): then it copies and deletes
BackupStep == IF component # "plugin" /\ upper THEN "rename" ELSE "copy"

\* mutant: the old backup stays where it is
BackupKept ==
    /\ pc = "drop" /\ dir # NoDir
    /\ pc' = BackupStep
    /\ UNCHANGED <<component, stored, tmp, remembered, service, bounds, history>>

\* rm -rf of the old backup
DropBackup ==
    /\ pc = "drop" /\ dir # NoDir
    /\ backup' = NoDir
    /\ pc' = BackupStep
    /\ UNCHANGED <<component, dir, upper, archive, tmp, remembered, service, bounds, history>>

RenameDir ==
    /\ pc = "rename"
    /\ backup' = dir /\ dir' = NoDir
    /\ pc' = "mkdir"
    /\ UNCHANGED <<component, upper, archive, tmp, remembered, service, bounds, history>>

\* entries of dir not yet in the backup
ToCopy == {f \in Files : dir[f] # Absent /\ Content(backup)[f] = Absent}

CopyFile ==
    /\ pc = "copy"
    /\ \E f \in ToCopy : backup' = [Content(backup) EXCEPT ![f] = dir[f]]
    /\ UNCHANGED <<component, dir, upper, archive, script, service, bounds, history>>

CopyDone ==
    /\ pc = "copy" /\ ToCopy = {}
    /\ backup' = Content(backup)
    /\ pc' = IF component = "plugin" THEN "mkdir" ELSE "remove"
    /\ UNCHANGED <<component, dir, upper, archive, tmp, remembered, service, bounds, history>>

\* the second half of a mv that copies
RemoveFile ==
    /\ pc = "remove"
    /\ \E f \in Files : dir[f] # Absent /\ dir' = [dir EXCEPT ![f] = Absent]
    /\ UNCHANGED <<component, upper, backup, archive, script, service, bounds, history>>

RemoveDone ==
    /\ pc = "remove" /\ dir = EmptyDir
    /\ dir' = NoDir
    /\ pc' = "mkdir"
    /\ UNCHANGED <<component, upper, backup, archive, tmp, remembered, service, bounds, history>>

\* mutant: mkdir without -p
MakeDirFails ==
    /\ pc = "mkdir"
    /\ IF dir = NoDir
       THEN /\ dir' = EmptyDir /\ upper' = TRUE /\ pc' = "move"
            /\ UNCHANGED <<component, backup, archive, tmp, remembered, service, bounds, history>>
       ELSE Fail /\ UNCHANGED <<bounds, disturbed>>

\* mkdir -p; a new directory hides the lower layer
MakeDir ==
    /\ pc = "mkdir"
    /\ dir' = Content(dir)
    /\ upper' = (upper \/ dir = NoDir)
    /\ pc' = "move"
    /\ UNCHANGED <<component, backup, archive, tmp, remembered, service, bounds, history>>

\* mutant: the entry of the new version is removed before it is moved in
MoveRemovesFirst ==
    /\ pc = "move"
    /\ \E f \in tmp :
          IF dir[f] # Absent /\ dir[f] # archive.version
          THEN dir' = [dir EXCEPT ![f] = Absent] /\ UNCHANGED <<tmp, pc>>
          ELSE /\ dir' = [dir EXCEPT ![f] = archive.version]
               /\ tmp' = tmp \ {f}
               /\ pc' = IF tmp = {f} THEN "unlink" ELSE "move"
    /\ UNCHANGED <<component, upper, backup, archive, remembered, service, bounds, history>>

\* mv TMPDIR/... into the directory: a rename for each entry
MoveFile ==
    /\ pc = "move"
    /\ \E f \in tmp :
          /\ dir' = [dir EXCEPT ![f] = archive.version]
          /\ tmp' = tmp \ {f}
          /\ pc' = IF tmp = {f} THEN "unlink" ELSE "move"
    /\ UNCHANGED <<component, upper, backup, archive, remembered, service, bounds, history>>

RemoveArchive ==
    /\ pc = "unlink" /\ Finishes(archive)
    /\ archive' = NoArchive
    /\ pc' = "start"
    /\ UNCHANGED <<component, dir, upper, backup, tmp, remembered, service, bounds, history>>

\* The hook is run under the wrong path; a relative archive name is looked
\* up in TMPDIR, which the script changed into and has removed.
FinishFails ==
    /\ pc = "unlink" /\ ~Finishes(archive)
    /\ Fail
    /\ UNCHANGED <<bounds, disturbed>>

StartService ==
    /\ pc = "start"
    /\ service' = remembered
    /\ pc' = "idle" /\ outcome' = "success"
    /\ UNCHANGED <<component, stored, tmp, remembered, bounds, begun, disturbed, lost>>

-----------------------------------------------------------------------------
(* Faults *)

\* mutant: there is no set -e
ErrorIgnored ==
    /\ pc \in {"copy", "move"} /\ faults < MaxFaults
    /\ faults' = faults + 1 /\ disturbed' = TRUE
    /\ pc' = CASE pc = "copy" -> IF component = "plugin" THEN "mkdir" ELSE "remove"
               [] pc = "move" -> "unlink"
    /\ UNCHANGED <<component, stored, tmp, remembered, service, offered, cuts, begun, outcome, lost>>

\* a command fails: the data partition is full, a tool exits non-zero
CommandFails ==
    /\ pc \notin {"idle", "off"} /\ faults < MaxFaults
    /\ faults' = faults + 1 /\ disturbed' = TRUE
    /\ Fail
    /\ UNCHANGED <<offered, cuts>>

PowerCut ==
    /\ pc # "off" /\ cuts < MaxCuts
    /\ cuts' = cuts + 1
    /\ pc' = "off" /\ tmp' = {} /\ remembered' = FALSE /\ service' = FALSE
    /\ outcome' = "none"
    /\ IF archive # NoArchive /\ archive.kind = "downloaded"
       THEN archive' = NoArchive /\ lost' = (lost \/ ~Complete(dir))
       ELSE UNCHANGED <<archive, lost>>
    /\ UNCHANGED <<component, dir, upper, backup, offered, faults, begun, disturbed>>

\* systemd starts the app, and app-launch.sh restores a missing directory
Boot ==
    /\ pc = "off"
    /\ pc' = "idle"
    /\ service' = (component # "web")
    /\ IF component = "app" /\ dir = NoDir /\ backup # NoDir
       THEN dir' = backup /\ backup' = NoDir
       ELSE UNCHANGED <<dir, backup>>
    /\ UNCHANGED <<component, upper, archive, tmp, remembered, bounds, history>>

Prepare  == Begin \/ Unpack \/ UnpackFails \/ StopService \/ StopServiceUnknown
SaveOld  == NothingToSave \/ DropBackup \/ RenameDir \/ CopyFile \/ CopyDone \/ RemoveFile \/ RemoveDone
Activate == MakeDir \/ MoveFile
Finish   == RemoveArchive \/ FinishFails \/ StartService
Updater  == Prepare \/ SaveOld \/ Activate \/ Finish
Outside  == Offer \/ Discard \/ SwitchWebServer \/ CommandFails \/ PowerCut \/ Boot

Next == Updater \/ Outside

Spec == Init /\ [][Next]_vars

\* A script that runs goes on, the device is switched on again, and an
\* archive that is still there is tried again.
FairSpec == Spec /\ WF_vars(Updater) /\ WF_vars(Boot)

-----------------------------------------------------------------------------
(* Properties *)

Phases == {"off", "idle", "unpack", "stop", "drop", "rename", "copy", "remove",
           "mkdir", "move", "unlink", "start"}

\* The type invariant; entries are unpacked only while a script runs.
TypeOK ==
    /\ component \in Components
    /\ dir \in Dir \cup {NoDir} /\ upper \in BOOLEAN
    /\ backup \in Dir \cup {NoDir}
    /\ archive \in Archive \cup {NoArchive}
    /\ pc \in Phases /\ tmp \subseteq Files /\ (pc \in {"idle", "off"} => tmp = {})
    /\ remembered \in BOOLEAN /\ service \in BOOLEAN
    /\ offered \in 1..(MaxOffers + 1) /\ faults \in 0..MaxFaults /\ cuts \in 0..MaxCuts
    /\ begun \in [archive : Archive \cup {NoArchive}, dir : Dir \cup {NoDir}, service : BOOLEAN]
    /\ outcome \in {"none", "failed", "success"}
    /\ disturbed \in BOOLEAN /\ lost \in BOOLEAN

\* Whatever fails and whenever power is cut, also over several attempts, a
\* complete version can be had: installed, in the backup or in the archive;
\* unless a reboot lost a download whose installation had begun.
CompleteSomewhere ==
    lost \/ Complete(dir) \/ Complete(backup)
         \/ (archive # NoArchive /\ archive.kind # "damaged")

\* A plugin that is installed is there at any time, before, while and after
\* it is replaced, and never goes back to an older version.
PluginsNeverLost ==
    [][component = "plugin" => \A f \in Files : Content(dir)[f] <= Content(dir')[f]]_vars

\* The installation changes only while the program that runs from it is
\* stopped.
ChangedOnlyWhenStopped == [][dir' # dir => ~service]_vars

\* A run that ends well has installed every entry of the archive it began
\* with and left no trace of the version before, but for plugins, where the
\* others stay as they were; its backup is what was installed when it began.
SuccessInstallsAll ==
    outcome = "success" =>
        \A f \in Files : Content(dir)[f] = IF f \in begun.archive.files
                                           THEN begun.archive.version ELSE begun.dir[f]
SuccessKeepsBackup ==
    outcome = "success" /\ begun.dir # NoDir => backup = begun.dir
SuccessReplacesAll == SuccessInstallsAll /\ SuccessKeepsBackup

\* After a run that ends well lighttpd runs if and only if it did when the
\* run began, and the app runs in any case.
ServiceRestored ==
    [][outcome' = "success" /\ outcome # "success"
         => service' = (begun.service \/ component = "plugin")]_vars

\* The wreck of any failed or interrupted attempt can be updated: a plain
\* archive is in the end installed, or given up with the installation whole.
Converges ==
    (component # "app" /\ archive # NoArchive /\ archive.kind = "plain")
        ~> (archive = NoArchive /\ Complete(dir))

-----------------------------------------------------------------------------
(* Refinement *)

\* only a directory with a whole version counts, only an archive that passes
\* the checks
Whole(d)   == IF Complete(d) THEN d ELSE NoDir
newVersion == IF archive # NoArchive /\ Unpacks(archive) THEN archive ELSE NoArchive

R == INSTANCE Replacement WITH
        Parts <- Files, Nothing <- NoDir, NoNews <- NoArchive,
        live <- Whole(dir), saved <- Whole(backup), news <- newVersion, latest <- offered

\* However a run is cut into commands, fails, is interrupted and is retried:
\* to the outside a whole version goes only into the backup, and only with a
\* new one at hand; a plugin is replaced when the old one is in the backup; a
\* backup goes only with a new version at hand; and an archive goes from an
\* installation that is not whole only when a reboot takes a download.
ImplementsReplacement == R!Spec

-----------------------------------------------------------------------------
(* What comments and messages of the code say, and the code does not keep *)

\* app-update.sh:39: "Updates the YIO remote app with the provided update
\* marker file or archive": a plain archive is installed if nothing fails.
UpdatesTheApp ==
    outcome = "failed" /\ begun.archive.kind = "plain" => disturbed

\* app-plugin-update.sh:178-195: "is now available in the plugin directory",
\* "Update finished! Launching app...": a run that has put the new version
\* into the directory, and of which no command is made to fail, succeeds.
InstalledIsFinished ==
    outcome = "failed" /\ ~disturbed => dir = begun.dir

\* web-configurator-update.sh:135: "use ${YIO_HOME} base dir for atomic file
\* operation": no power cut leaves a half replaced installation.
SwitchIsAtomic == pc = "off" => Complete(dir)

=============================================================================
