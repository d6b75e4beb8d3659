---------------------------- MODULE SystemUpdate ----------------------------
(***************************************************************************)
(* The A/B system update of YIO remote-os: the U-Boot boot script and boot *)
(* counter, SWUpdate writing the other root partition, the delayed good    *)
(* boot check reset-bootcount.sh, and systemd's supervision of the remote  *)
(* app.  The four share the U-Boot environment and the two partitions;     *)
(* power may be lost between any two steps.                                *)
(***************************************************************************)
EXTENDS Naturals

CONSTANTS
    BootLimit,        \* CONFIG_BOOTCOUNT_BOOTLIMIT (3)
    StartLimitBurst,  \* starts of the app systemd allows within a minute (2)
    Packages,         \* how the images offered for installation behave
    MaxUpdates,       \* bound: updates started
    MaxCuts           \* bound: power cuts

(***************************************************************************)
(* Behaviours of an installed image.  "torn" is a partially written one;   *)
(* "unbootable" has no loadable kernel; "panics" fails in the kernel or in *)
(* init-overlay.sh; the app of "crashing" exits within seconds of every    *)
(* start; the app of "flaky" may exit at any time; "good" keeps running.   *)
(***************************************************************************)
Kinds == {"good", "flaky", "crashing", "panics", "unbootable"}

Loads(kind)    == kind \notin {"torn", "unbootable"}
Inits(kind)    == kind # "panics"
AppExits(kind) == kind \in {"crashing", "flaky"}
\* the app is not in an endless crash loop: the system lives past a minute
Lasts(kind)    == kind # "crashing"

ASSUME BootLimitAssumption  == BootLimit \in Nat \ {0}
ASSUME BurstAssumption      == StartLimitBurst \in Nat \ {0}
ASSUME PackagesAssumption   == Packages \subseteq Kinds
ASSUME BoundsAssumption     == MaxUpdates \in Nat /\ MaxCuts \in Nat

Slots    == {"A", "B"}
NoSlot   == "none"
Other(s) == IF s = "A" THEN "B" ELSE "A"

Env == [boot_slot : Slots \cup {NoSlot}, bootcount : Nat,
        upgrade_available : BOOLEAN, altbootcmd : BOOLEAN]

\* the environment compiled into U-Boot, in use until the first saveenv
DefaultEnv == [boot_slot |-> NoSlot, bootcount |-> 0,
               upgrade_available |-> FALSE, altbootcmd |-> FALSE]

VARIABLES
    \* persistent
    env,        \* /boot/uboot.env
    image,      \* behaviour of the image on each root partition
    \* the running machine
    stage,      \* "off", U-Boot's "altboot" and "script", "kernel", "up"
    ram,        \* U-Boot's copy of the environment
    root,       \* slot of the mounted root file system
    app,        \* app.service: "stopped", "active", "restarting"
    starts,     \* app starts counted in the current start limit interval
    check,      \* reset-bootcount.sh: "armed", "read", "clear", "zero", "done"
    sw,         \* SWUpdate: "idle", "writing", "commit", "done"
    \* bounds
    updates, cuts,
    \* history, read by the properties only
    boots,      \* power-ons since boot_slot was last set, up to BootLimit + 1
    verified,   \* slots whose present image the good boot check has passed
    overlapped, \* an update was started from an image not yet verified
    raced       \* the check cleared the trial of an update not yet booted

flash   == <<env, image>>
machine == <<stage, ram, root>>
service == <<app, starts, check>>
bounds  == <<updates, cuts>>
history == <<boots, verified, overlapped, raced>>
vars    == <<flash, machine, service, sw, bounds, history>>

Init ==
    /\ env = DefaultEnv
    /\ image = [s \in Slots |-> "good"]
    /\ stage = "off" /\ ram = DefaultEnv /\ root = NoSlot
    /\ app = "stopped" /\ starts = 0 /\ check = "armed"
    /\ sw = "idle"
    /\ updates = 0 /\ cuts = 0
    /\ boots = 0 /\ verified = Slots /\ overlapped = FALSE /\ raced = FALSE

\* Everything volatile is gone: a power cut, a reset or a reboot.
Restart ==
    /\ stage' = "off" /\ ram' = DefaultEnv /\ root' = NoSlot
    /\ app' = "stopped" /\ starts' = 0 /\ check' = "armed"
    /\ sw' = "idle"

-----------------------------------------------------------------------------
(* U-Boot *)

\* bootcount_load of the environment driver: no count outside of a trial
BootCount == IF env.upgrade_available THEN env.bootcount ELSE 0

\* mutant: the limit is compared before the counter is advanced
PowerOnComparesFirst ==
    /\ stage = "off"
    /\ LET counted == [env EXCEPT !.bootcount = BootCount + 1]
       IN  /\ ram' = counted
           /\ env' = IF env.upgrade_available THEN counted ELSE env
           /\ stage' = IF BootCount > BootLimit THEN "altboot" ELSE "script"
    /\ boots' = IF boots > BootLimit THEN boots ELSE boots + 1
    /\ UNCHANGED <<image, root, service, sw, bounds, verified, overlapped, raced>>

\* The environment is loaded, the boot counter advanced and, in a trial,
\* saved; beyond the limit altbootcmd runs in place of bootcmd.
PowerOn ==
    /\ stage = "off"
    /\ LET counted == [env EXCEPT !.bootcount = BootCount + 1]
       IN  /\ ram' = counted
           /\ env' = IF env.upgrade_available THEN counted ELSE env
           /\ stage' = IF counted.bootcount > BootLimit THEN "altboot" ELSE "script"
    /\ boots' = IF boots > BootLimit THEN boots ELSE boots + 1
    /\ UNCHANGED <<image, root, service, sw, bounds, verified, overlapped, raced>>

\* altbootcmd: change to the other slot, clear the count, save, boot.  The
\* trial stays pending, now for the slot rolled back to.
AltBoot ==
    /\ stage = "altboot" /\ ram.altbootcmd
    /\ ram' = [ram EXCEPT !.boot_slot = Other(@), !.bootcount = 0]
    /\ env' = ram'
    /\ stage' = "script"
    /\ boots' = 0
    /\ UNCHANGED <<image, root, service, sw, bounds, verified, overlapped, raced>>

DefaultSlot ==
    /\ stage = "script" /\ ram.boot_slot = NoSlot
    /\ ram' = [ram EXCEPT !.boot_slot = "A"]
    /\ env' = ram'
    /\ UNCHANGED <<image, stage, root, service, sw, bounds, history>>

\* mutant: no saveenv after the new altbootcmd
AltbootcmdNotSaved ==
    /\ stage = "script" /\ ram.boot_slot # NoSlot /\ ~ram.altbootcmd
    /\ ram' = [ram EXCEPT !.altbootcmd = TRUE]
    /\ UNCHANGED <<flash, stage, root, service, sw, bounds, history>>

CreateAltbootcmd ==
    /\ stage = "script" /\ ram.boot_slot # NoSlot /\ ~ram.altbootcmd
    /\ ram' = [ram EXCEPT !.altbootcmd = TRUE]
    /\ env' = ram'
    /\ UNCHANGED <<image, stage, root, service, sw, bounds, history>>

ScriptReady == stage = "script" /\ ram.boot_slot # NoSlot /\ ram.altbootcmd

LoadKernel ==
    /\ ScriptReady /\ Loads(image[ram.boot_slot])
    /\ stage' = "kernel" /\ root' = ram.boot_slot /\ ram' = DefaultEnv
    /\ UNCHANGED <<flash, service, sw, bounds, history>>

\* "Boot failed!": the script resets the board
LoadFails ==
    /\ ScriptReady /\ ~Loads(image[ram.boot_slot])
    /\ Restart
    /\ UNCHANGED <<flash, bounds, history>>

-----------------------------------------------------------------------------
(* Linux: init and the supervised app *)

InitSystem ==
    /\ stage = "kernel" /\ Inits(image[root])
    /\ stage' = "up"
    /\ UNCHANGED <<flash, ram, root, service, sw, bounds, history>>

\* mutant: without panic=5 the kernel halts
PanicHalts ==
    /\ stage = "kernel" /\ ~Inits(image[root])
    /\ UNCHANGED vars

\* init-overlay.sh or the kernel fails: panic=5 reboots
KernelPanic ==
    /\ stage = "kernel" /\ ~Inits(image[root])
    /\ Restart
    /\ UNCHANGED <<flash, bounds, history>>

\* mutant: no StartLimitBurst
UnlimitedAppStart ==
    /\ stage = "up" /\ app # "active"
    /\ app' = "active" /\ starts' = starts + 1
    /\ UNCHANGED <<flash, machine, check, sw, bounds, history>>

AppStart ==
    /\ stage = "up" /\ app # "active" /\ starts < StartLimitBurst
    /\ app' = "active" /\ starts' = starts + 1
    /\ UNCHANGED <<flash, machine, check, sw, bounds, history>>

AppExit ==
    /\ stage = "up" /\ app = "active" /\ AppExits(image[root])
    /\ app' = "restarting"
    /\ UNCHANGED <<flash, machine, starts, check, sw, bounds, history>>

\* StartLimitAction=reboot-force, at the start beyond the limit
StartLimitHit ==
    /\ stage = "up" /\ app = "restarting" /\ starts = StartLimitBurst
    /\ Restart
    /\ UNCHANGED <<flash, bounds, history>>

\* StartLimitIntervalSec elapses and the count of starts begins anew
IntervalElapses ==
    /\ stage = "up" /\ starts > 0 /\ Lasts(image[root])
    /\ starts' = 0
    /\ UNCHANGED <<flash, machine, app, check, sw, bounds, history>>

-----------------------------------------------------------------------------
(* The good boot check: one-shot, OnBootSec=180 *)

\* mutant: the timer elapses as soon as the app runs, before a crash loop shows
TimerTooEarly ==
    /\ stage = "up" /\ check = "armed" /\ app # "stopped"
    /\ check' = IF app = "active" THEN "read" ELSE "done"
    /\ UNCHANGED <<flash, machine, app, starts, sw, bounds, history>>

TimerElapses ==
    /\ stage = "up" /\ check = "armed"
    /\ app # "stopped" /\ Lasts(image[root])
    /\ check' = IF app = "active" THEN "read" ELSE "done"
    /\ UNCHANGED <<flash, machine, app, starts, sw, bounds, history>>

ReadUpgradeAvailable ==
    /\ stage = "up" /\ check = "read"
    /\ check' = IF env.upgrade_available THEN "clear" ELSE "done"
    /\ UNCHANGED <<flash, machine, app, starts, sw, bounds, history>>

ClearUpgradeAvailable ==
    /\ stage = "up" /\ check = "clear"
    /\ env' = [env EXCEPT !.upgrade_available = FALSE]
    /\ check' = "zero"
    /\ verified' = verified \cup {root}
    /\ raced' = (raced \/ sw = "done")
    /\ UNCHANGED <<image, machine, app, starts, sw, bounds, boots, overlapped>>

ZeroBootcount ==
    /\ stage = "up" /\ check = "zero"
    /\ env' = [env EXCEPT !.bootcount = 0]
    /\ check' = "done"
    /\ UNCHANGED <<image, machine, app, starts, sw, bounds, history>>

-----------------------------------------------------------------------------
(* SWUpdate *)

\* mutant: the two branches of rootfs.sh are swapped
TargetIsRoot == root

\* rootfs.sh selects the partition that is not the mounted root
UpdateTarget == Other(root)

\* The image is streamed straight onto the partition (installed-directly).
UpdateStart ==
    /\ stage = "up" /\ sw = "idle" /\ updates < MaxUpdates
    /\ sw' = "writing"
    /\ image' = [image EXCEPT ![UpdateTarget] = "torn"]
    /\ updates' = updates + 1
    /\ verified' = verified \ {UpdateTarget}
    /\ overlapped' = (overlapped \/ root \notin verified)
    /\ UNCHANGED <<env, machine, service, cuts, boots, raced>>

UpdateWritten ==
    /\ stage = "up" /\ sw = "writing"
    /\ \E kind \in Packages : image' = [image EXCEPT ![UpdateTarget] = kind]
    /\ sw' = "commit"
    /\ UNCHANGED <<env, machine, service, bounds, history>>

\* a broken transfer or a hash mismatch: the partition stays as it is
UpdateFails ==
    /\ stage = "up" /\ sw = "writing"
    /\ sw' = "idle"
    /\ UNCHANGED <<flash, machine, service, bounds, history>>

\* mutant: sw-description without upgrade_available
CommitWithoutTrial ==
    /\ stage = "up" /\ sw = "commit"
    /\ env' = [env EXCEPT !.boot_slot = UpdateTarget, !.bootcount = 0]
    /\ sw' = "done"
    /\ boots' = 0
    /\ UNCHANGED <<image, machine, service, bounds, verified, overlapped, raced>>

\* mutant: sw-description without bootcount
CommitKeepsBootcount ==
    /\ stage = "up" /\ sw = "commit"
    /\ env' = [env EXCEPT !.boot_slot = UpdateTarget, !.upgrade_available = TRUE]
    /\ sw' = "done"
    /\ boots' = 0
    /\ UNCHANGED <<image, machine, service, bounds, verified, overlapped, raced>>

\* the bootenv section of sw-description, saved as one environment
UpdateCommit ==
    /\ stage = "up" /\ sw = "commit"
    /\ env' = [env EXCEPT !.boot_slot = UpdateTarget, !.bootcount = 0,
                          !.upgrade_available = TRUE]
    /\ sw' = "done"
    /\ boots' = 0
    /\ UNCHANGED <<image, machine, service, bounds, verified, overlapped, raced>>

\* postupdate.sh: reboot
PostUpdate ==
    /\ stage = "up" /\ sw = "done"
    /\ Restart
    /\ UNCHANGED <<flash, bounds, history>>

-----------------------------------------------------------------------------
\* power loss, or a user's reboot, at any point
PowerCut ==
    /\ stage # "off" /\ cuts < MaxCuts
    /\ cuts' = cuts + 1
    /\ Restart
    /\ UNCHANGED <<flash, updates, history>>

UBoot == PowerOn \/ AltBoot \/ DefaultSlot \/ CreateAltbootcmd \/ LoadKernel \/ LoadFails
Linux == InitSystem \/ KernelPanic \/ AppStart \/ AppExit \/ StartLimitHit \/ IntervalElapses
Check == TimerElapses \/ ReadUpgradeAvailable \/ ClearUpgradeAvailable \/ ZeroBootcount
SWUpdate == UpdateStart \/ UpdateWritten \/ UpdateFails \/ UpdateCommit \/ PostUpdate

Next == UBoot \/ Linux \/ Check \/ SWUpdate \/ PowerCut

\* The boot sequence and each process keep running; a crashing app does
\* crash; nobody is obliged to update, to cut power or to exit.
Fairness ==
    /\ WF_vars(UBoot)
    /\ WF_vars(InitSystem \/ KernelPanic)
    /\ WF_vars(AppStart)
    /\ WF_vars(AppExit /\ image[root] = "crashing")
    /\ WF_vars(StartLimitHit)
    /\ WF_vars(Check)
    /\ WF_vars(UpdateCommit)
    /\ WF_vars(PostUpdate)

Spec     == Init /\ [][Next]_vars
FairSpec == Spec /\ Fairness

-----------------------------------------------------------------------------
(* Properties *)

\* The type invariant.
TypeOK ==
    /\ env \in Env /\ ram \in Env
    /\ image \in [Slots -> Kinds \cup {"torn"}]
    /\ stage \in {"off", "altboot", "script", "kernel", "up"}
    /\ root \in Slots \cup {NoSlot}
    /\ app \in {"stopped", "active", "restarting"}
    /\ starts \in 0..StartLimitBurst
    /\ check \in {"armed", "read", "clear", "zero", "done"}
    /\ sw \in {"idle", "writing", "commit", "done"}
    /\ updates \in 0..MaxUpdates /\ cuts \in 0..MaxCuts
    /\ boots \in 0..(BootLimit + 1)
    /\ verified \subseteq Slots
    /\ overlapped \in BOOLEAN /\ raced \in BOOLEAN

\* Outside of a trial the boot slot holds an image that passed the good boot
\* check, unless the check raced with a commit: no crash, failed update or
\* rollback makes an unverified image final.
OnlyVerifiedIsFinal ==
    ~raced /\ env.boot_slot # NoSlot /\ ~env.upgrade_available
        => env.boot_slot \in verified

\* A trial can be rolled back: whenever upgrade_available is saved, so is the
\* altbootcmd that U-Boot runs beyond the limit, and in the trial of an
\* unverified image the other slot, where this leads, holds a verified one,
\* unless an update was installed from an unverified system.
RollbackArmed          == env.upgrade_available => env.altbootcmd
RollbackTargetVerified ==
    ~overlapped /\ env.upgrade_available /\ env.boot_slot \notin verified
        => Other(env.boot_slot) \in verified
RollbackReady          == RollbackArmed /\ RollbackTargetVerified

\* An image the check has passed keeps starting: it was complete, booted and
\* outlived the crash loop, and SWUpdate has not touched its slot since.
VerifiedKeepsWorking ==
    \A s \in verified : Loads(image[s]) /\ Inits(image[s]) /\ Lasts(image[s])

\* The mounted root is a complete image: SWUpdate never writes under it.
RunningRootIntact == stage \in {"kernel", "up"} => Loads(image[root])

\* The script starts the slot of a pending trial at most BootLimit power-ons
\* after that slot was set, however the power-ons end.
TrialBudget == stage = "script" /\ ram.upgrade_available => boots <= BootLimit

\* U-Boot leaves a slot only during a trial and only once the slot has had
\* all its BootLimit power-ons; a system marked OK is never left.
RollbackOnlyWhenExhausted ==
    [][env.boot_slot # NoSlot /\ env'.boot_slot # env.boot_slot /\ sw # "commit"
         => env.upgrade_available /\ boots > BootLimit]_vars

\* an image whose app is up to chance was written to a slot
Gamble == \E s \in Slots : image[s] = "flaky"

\* Whatever was installed and whenever power failed, the device ends up
\* running a system with its app active and no trial left pending, if no
\* update was started from an unverified system, no check raced with a commit
\* and no image is "flaky".
EventuallyRunning ==
    \/ <>[](stage = "up" /\ app = "active" /\ ~env.upgrade_available)
    \/ <>(overlapped \/ raced \/ Gamble)

-----------------------------------------------------------------------------
(* Refinement *)

\* the slot the next power-on starts; the tries its saved count stands for
activeSlot == IF env.boot_slot = NoSlot THEN "A" ELSE env.boot_slot
triesUsed  == IF ~env.upgrade_available THEN 0
              ELSE IF env.bootcount > BootLimit THEN BootLimit ELSE env.bootcount

AB == INSTANCE ABUpdate WITH
        Limit <- BootLimit, active <- activeSlot, trial <- env.upgrade_available,
        tries <- triesUsed, good <- verified, void <- raced

\* The environment and the partitions go through the life of an A/B update:
\* install, activate, a bounded number of tries, then confirm or roll back,
\* with crashes, resets and failed updates invisible, until the check races
\* with a commit.
ImplementsAB == AB!Spec

-----------------------------------------------------------------------------
(* What comments and messages of the code say, and the code does not keep *)

\* reset-bootcount.sh:28-31: "Clear upgrade status and mark partition ok",
\* "Marked current partition OK": the slot whose trial ends is the one running.
MarkedOkIsRunning ==
    [][check = "clear" /\ check' = "zero" => env.boot_slot = root]_vars

\* uboot-boot.ush:29: "Rollback from boot slot ... to old boot slot": the
\* rollback of an unverified system leads to a verified one.
RollbackLandsOnOld ==
    [][stage = "altboot" /\ stage' = "script" /\ env.boot_slot \notin verified
         => env'.boot_slot \in verified]_vars

\* reset-bootcount.sh:25: "If anything went wrong, reboot again until the
\* bootlimit is reached": a check that ends with the trial of the running
\* slot still pending is followed by a reboot.
FailedCheckReboots ==
    (stage = "up" /\ check = "done" /\ env.upgrade_available /\ env.boot_slot = root)
        ~> (stage # "up")

=============================================================================
