------------------------------ MODULE FirstSetup ------------------------------
(***************************************************************************)
(* The first runs of a device: init-overlay.sh provisions the files that   *)
(* are bound into /etc, app-launch.sh runs wifi-copy-config.sh (the WiFi   *)
(* configuration found on the boot partition) and firstrun.sh (host name,  *)
(* skip of the first setup), then the app.  Each command of the scripts    *)
(* that changes a persistent file is a step, a copy or a redirection is    *)
(* two: it truncates the file, then fills it.  Power cuts, and the stops   *)
(* and starts of app.service by the updaters, fall between any two steps.  *)
(***************************************************************************)
EXTENDS Naturals

CONSTANTS
    CardConfigs,  \* contents a wpa_supplicant.conf in /boot may have
    NoCard,       \* there is no such file
    FactoryConf,  \* the configuration shipped in the image
    MaxCuts,      \* bound: power cuts
    MaxStops,     \* bound: stops of app.service by an updater
    MaxCards      \* bound: changes of the file in /boot

ASSUME CardAssumption   == /\ CardConfigs # {} /\ NoCard \notin CardConfigs
                           /\ FactoryConf \notin CardConfigs \cup {NoCard}
                           /\ "torn" \notin CardConfigs
ASSUME BoundsAssumption == MaxCuts \in Nat /\ MaxStops \in Nat /\ MaxCards \in Nat

VARIABLES
    \* persistent
    card,      \* ${YIO_CFG_OVERRIDE_DIR}/wpa_supplicant.conf
    conf,      \* /var/etc/wpa_supplicant/wpa_supplicant-wlan0.conf
    wificopy,  \* /var/yio/wificopy exists
    firstrun,  \* /var/yio/firstrun exists
    hostname, hosts, machineId,  \* the files in the upper layer of /var/etc
    \* the running system
    pc,        \* the next command; "off", "app", "closing" after a reboot command
    bound,     \* files whose bind mount onto /etc succeeded
    id,        \* the machine id in use: "none", "stored" or a "transient" one
    \* bounds
    cuts, stops, cards,
    \* history, read by the properties only
    cutShort,  \* a power cut interrupted the provisioning
    unmarked   \* the stored configuration comes from the card, and the run
               \* that copied it was interrupted before it made the marker,
               \* or the marker was removed while the file was away

files   == <<hostname, hosts, machineId>>
setup   == <<conf, wificopy, firstrun>>
system  == <<pc, bound, id>>
bounds  == <<cuts, stops, cards>>
history == <<cutShort, unmarked>>
vars    == <<card, setup, files, system, bounds, history>>

\* A file of /var/etc: not there, cut off, the image's, named after the device.
NameFile == {"missing", "torn", "image", "named"}

\* The steps of init-overlay.sh's provisioning, of wifi-copy-config.sh and of
\* firstrun.sh, in their order; the second of each pair fills the file.
Provisioning == {"hostname", "hostname2", "hosts", "hosts2", "machine-id", "machine-id2"}
Launching    == {"launch", "copy", "copy2", "marker", "first",
                 "name", "name2", "etchosts", "etchosts2", "skip", "reboot"}
Running      == Launching \cup {"app"}

Init ==
    /\ card \in CardConfigs \cup {NoCard}
    /\ conf = FactoryConf /\ wificopy = FALSE /\ firstrun = TRUE
    /\ hostname = "missing" /\ hosts = "missing" /\ machineId = "missing"
    /\ pc = "off" /\ bound = {} /\ id = "none"
    /\ cuts = 0 /\ stops = 0 /\ cards = 0
    /\ cutShort = FALSE /\ unmarked = FALSE

-----------------------------------------------------------------------------
(* init-overlay.sh and systemd *)

\* [ ! -r .../hostname ]: an empty file is readable
Unprovisioned == hostname = "missing"

PowerOn ==
    /\ pc = "off"
    /\ pc' = IF Unprovisioned THEN "hostname" ELSE "systemd"
    /\ UNCHANGED <<card, setup, files, bound, id, bounds, history>>

\* mutant: the machine id is left to systemd
ProvisionNames ==
    /\ \/ /\ pc = "hostname"  /\ hostname' = "torn"  /\ pc' = "hostname2" /\ UNCHANGED hosts
       \/ /\ pc = "hostname2" /\ hostname' = "image" /\ pc' = "hosts"     /\ UNCHANGED hosts
       \/ /\ pc = "hosts"     /\ hosts'    = "torn"  /\ pc' = "hosts2"    /\ UNCHANGED hostname
       \/ /\ pc = "hosts2"    /\ hosts'    = "image" /\ pc' = "systemd"   /\ UNCHANGED hostname
    /\ UNCHANGED <<machineId, card, setup, bound, id, bounds, history>>
\* cp hostname, cp hosts, echo > machine-id
Provision ==
    /\ \/ /\ pc = "hostname"    /\ hostname'  = "torn"   /\ pc' = "hostname2"
          /\ UNCHANGED <<hosts, machineId>>
       \/ /\ pc = "hostname2"   /\ hostname'  = "image"  /\ pc' = "hosts"
          /\ UNCHANGED <<hosts, machineId>>
       \/ /\ pc = "hosts"       /\ hosts'     = "torn"   /\ pc' = "hosts2"
          /\ UNCHANGED <<hostname, machineId>>
       \/ /\ pc = "hosts2"      /\ hosts'     = "image"  /\ pc' = "machine-id"
          /\ UNCHANGED <<hostname, machineId>>
       \/ /\ pc = "machine-id"  /\ machineId' = "torn"   /\ pc' = "machine-id2"
          /\ UNCHANGED <<hostname, hosts>>
       \/ /\ pc = "machine-id2" /\ machineId' = "uninit" /\ pc' = "systemd"
          /\ UNCHANGED <<hostname, hosts>>
    /\ UNCHANGED <<card, setup, bound, id, bounds, history>>

\* A bind mount needs its source.  systemd replaces "uninitialized", and the
\* empty file, by an id and writes it through the mount; without the mount the
\* id goes to the /etc overlay, which is in memory.
Boot ==
    /\ pc = "systemd"
    /\ bound' = {f \in {"hostname", "hosts"} :
                    (f = "hostname" /\ hostname # "missing") \/ (f = "hosts" /\ hosts # "missing")}
    /\ IF machineId = "missing"
       THEN id' = "transient" /\ UNCHANGED machineId
       ELSE id' = "stored" /\ machineId' = "id"
    /\ pc' = "launch"
    /\ UNCHANGED <<card, setup, hostname, hosts, bounds, history>>

-----------------------------------------------------------------------------
(* wifi-copy-config.sh *)

\* mutant: a configuration was copied before, whatever it was
CopiedOnce == conf # FactoryConf
\* cmp -s
AlreadyCopied == conf = card

NoCardFile ==
    /\ pc = "launch" /\ card = NoCard
    /\ wificopy' = FALSE /\ pc' = "first"
    /\ unmarked' = (conf \in CardConfigs)
    /\ UNCHANGED <<card, conf, firstrun, files, bound, id, bounds, cutShort>>

\* mutant: the file is not looked for first
CompareAnyway ==
    /\ pc = "launch"
    /\ pc' = IF AlreadyCopied THEN "first" ELSE "copy"
    /\ UNCHANGED <<card, setup, files, bound, id, bounds, history>>
CompareCardFile ==
    /\ pc = "launch" /\ card # NoCard
    /\ pc' = IF AlreadyCopied THEN "first" ELSE "copy"
    /\ UNCHANGED <<card, setup, files, bound, id, bounds, history>>

CopyCardFile ==
    /\ \/ pc = "copy"  /\ conf' = "torn" /\ pc' = "copy2"
       \/ pc = "copy2" /\ conf' = card   /\ pc' = "marker"
    /\ UNCHANGED <<card, wificopy, firstrun, files, bound, id, bounds, history>>

\* mutant: no marker
NoMarker ==
    /\ pc = "marker" /\ pc' = "first" /\ unmarked' = FALSE
    /\ UNCHANGED <<card, setup, files, bound, id, bounds, cutShort>>
\* wifi is restarted, after three seconds the marker is made
TouchMarker ==
    /\ pc = "marker"
    /\ wificopy' = TRUE /\ pc' = "first" /\ unmarked' = FALSE
    /\ UNCHANGED <<card, conf, firstrun, files, bound, id, bounds, cutShort>>

-----------------------------------------------------------------------------
(* firstrun.sh *)

FirstRun ==
    /\ pc = "first"
    /\ pc' = IF firstrun THEN "name" ELSE "app"
    /\ UNCHANGED <<card, setup, files, bound, id, bounds, history>>

\* mutant: the script is left when the host name is set
NameOnly ==
    /\ \/ /\ pc = "name"  /\ pc' = "name2"
          /\ hostname' = IF "hostname" \in bound THEN "torn" ELSE hostname
       \/ /\ pc = "name2" /\ pc' = "skip"
          /\ hostname' = IF "hostname" \in bound THEN "named" ELSE hostname
    /\ UNCHANGED <<hosts, card, setup, machineId, bound, id, bounds, history>>
\* echo > /etc/hostname, echo > /etc/hosts; what is not bound goes to memory
WriteNames ==
    /\ \/ /\ pc = "name"      /\ pc' = "name2"
          /\ hostname' = IF "hostname" \in bound THEN "torn" ELSE hostname
          /\ UNCHANGED hosts
       \/ /\ pc = "name2"     /\ pc' = "etchosts"
          /\ hostname' = IF "hostname" \in bound THEN "named" ELSE hostname
          /\ UNCHANGED hosts
       \/ /\ pc = "etchosts"  /\ pc' = "etchosts2"
          /\ hosts' = IF "hosts" \in bound THEN "torn" ELSE hosts
          /\ UNCHANGED hostname
       \/ /\ pc = "etchosts2" /\ pc' = "skip"
          /\ hosts' = IF "hosts" \in bound THEN "named" ELSE hosts
          /\ UNCHANGED hostname
    /\ UNCHANGED <<card, setup, machineId, bound, id, bounds, history>>

\* mutant: the reboot comes without the rm
RebootOnly ==
    /\ pc = "skip"
    /\ pc' = (IF wificopy THEN "reboot" ELSE "app")
    /\ UNCHANGED <<firstrun, card, conf, wificopy, files, bound, id, bounds, history>>
\* a configuration was on the card: the first setup is skipped
SkipSetup ==
    /\ pc = "skip"
    /\ IF wificopy
       THEN firstrun' = FALSE /\ pc' = "reboot"
       ELSE pc' = "app" /\ UNCHANGED firstrun
    /\ UNCHANGED <<card, conf, wificopy, files, bound, id, bounds, history>>

\* The reboot command returns at once: app-launch.sh goes on to the app, and
\* both are ended when the system goes down.
Reboot ==
    /\ pc = "reboot" /\ pc' = "closing"
    /\ UNCHANGED <<card, setup, files, bound, id, bounds, history>>

Shutdown ==
    /\ pc = "closing"
    /\ pc' = "off" /\ bound' = {} /\ id' = "none"
    /\ UNCHANGED <<card, setup, files, bounds, history>>

-----------------------------------------------------------------------------
(* The app, the service, the environment *)

\* the app removes the marker when the user has finished the first setup
FinishSetup ==
    /\ pc = "app" /\ firstrun
    /\ firstrun' = FALSE
    /\ UNCHANGED <<card, conf, wificopy, files, system, bounds, history>>

\* an updater stops app.service, and with it the scripts, and starts it again
StopService ==
    /\ pc \in Running /\ stops < MaxStops
    /\ pc' = "launch" /\ stops' = stops + 1
    /\ unmarked' = (unmarked \/ pc = "marker")
    /\ UNCHANGED <<card, setup, files, bound, id, cuts, cards, cutShort>>

PowerCut ==
    /\ pc # "off" /\ cuts < MaxCuts
    /\ cuts' = cuts + 1
    /\ pc' = "off" /\ bound' = {} /\ id' = "none"
    /\ cutShort' = (cutShort \/ pc \in Provisioning \ {"hostname"})
    /\ unmarked' = (unmarked \/ pc = "marker")
    /\ UNCHANGED <<card, setup, files, stops, cards>>

\* the boot partition is edited in a card reader
ChangeCard ==
    /\ pc = "off" /\ cards < MaxCards
    /\ card' \in (CardConfigs \cup {NoCard}) \ {card}
    /\ cards' = cards + 1
    /\ UNCHANGED <<setup, files, system, cuts, stops, history>>

Script ==
    \/ Provision \/ Boot
    \/ NoCardFile \/ CompareCardFile \/ CopyCardFile \/ TouchMarker
    \/ FirstRun \/ WriteNames \/ SkipSetup \/ Reboot \/ Shutdown

Next == PowerOn \/ Script \/ FinishSetup \/ StopService \/ PowerCut \/ ChangeCard

Spec == Init /\ [][Next]_vars

\* A device that is off is switched on again, and its scripts go on: no command
\* of theirs waits for anything.  Nobody has to finish the first setup.
FairSpec == Spec /\ WF_vars(PowerOn) /\ WF_vars(Script)

-----------------------------------------------------------------------------
(* Properties *)

\* The variables have their types.
TypeOK ==
    /\ card \in CardConfigs \cup {NoCard}
    /\ conf \in CardConfigs \cup {FactoryConf, "torn"}
    /\ wificopy \in BOOLEAN /\ firstrun \in BOOLEAN
    /\ hostname \in NameFile /\ hosts \in NameFile
    /\ machineId \in {"missing", "torn", "uninit", "id"}
    /\ pc \in {"off", "systemd", "closing"} \cup Provisioning \cup Running
    /\ bound \subseteq {"hostname", "hosts"}
    /\ id \in {"none", "stored", "transient"}
    /\ cuts \in 0..MaxCuts /\ stops \in 0..MaxStops /\ cards \in 0..MaxCards
    /\ cutShort \in BOOLEAN /\ unmarked \in BOOLEAN

\* Once the marker of the first run is gone nothing writes the names again:
\* both files name the device then, whatever was interrupted before and in
\* whatever state, except that hosts stays away for good when the provisioning
\* by init-overlay.sh was cut off (firstrun.sh, init-overlay.sh).
NamedAfterSetup ==
    ~firstrun => /\ hostname = "named"
                 /\ hosts = "named" \/ (cutShort /\ hosts = "missing")

\* The system runs under the stored machine id, so under the same one after
\* every boot, unless the provisioning was cut off (init-overlay.sh).
IdentityKept ==
    id = "transient" => cutShort /\ machineId = "missing"

\* With a WiFi configuration on the card the app is never started into its
\* first setup (boot-overlay/README.md), unless the run that copied that very
\* configuration was interrupted between the copy and the marker, or the run
\* that made the marker never came to use it before the file was taken away.
SetupSkipped ==
    pc = "app" /\ firstrun /\ card # NoCard => unmarked

\* A configuration that stays on the card becomes the stored one and remains
\* it, whatever copy was interrupted (wifi-copy-config.sh).
CardConfigStored ==
    \A c \in CardConfigs : <>[](card = c) => <>[](conf = c)

\* The device does not reboot for ever: the app runs again and again
\* (firstrun.sh, which removes the marker before it reboots).
AppRuns == []<>(pc = "app")

=============================================================================
