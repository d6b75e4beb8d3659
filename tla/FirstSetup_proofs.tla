--------------------------- MODULE FirstSetup_proofs ---------------------------
(***************************************************************************)
(* Safety of the first runs of a device, for every set of configurations   *)
(* and any number of power cuts, service stops and changes of the card.    *)
(***************************************************************************)
EXTENDS FirstSetup, TLAPS

\* the steps of firstrun.sh before firstrun may be removed
Naming == {"name", "name2", "etchosts", "etchosts2", "skip"}

\* Where init-overlay.sh is, tells how far the provisioned files are; once it
\* is past, a file that is not there was lost to a cut.
Provisioned ==
    /\ pc = "hostname" => hostname = "missing"
    /\ pc \in Provisioning \ {"hostname"} => hostname \in {"torn", "image"}
    /\ pc \in Running \cup {"systemd", "closing"} => hostname # "missing"
    /\ pc \in {"hosts2", "machine-id", "machine-id2"} => hosts # "missing"
    /\ hostname # "missing" /\ pc \notin {"hostname2", "hosts"} =>
           hosts # "missing" \/ cutShort
    /\ hostname # "missing" /\ pc \notin {"hostname2", "hosts", "hosts2", "machine-id"} =>
           machineId # "missing" \/ cutShort

\* What is mounted is what was there at boot; the id is read at boot.
Mounted ==
    /\ pc \in {"off", "systemd"} \cup Provisioning => id = "none"
    /\ pc \in Running => /\ "hostname" \in bound
                         /\ "hosts" \in bound <=> hosts # "missing"

HostsNamed == hosts = "named" \/ (cutShort /\ hosts = "missing")

\* How far firstrun.sh is, tells which names are written; only behind it is
\* the marker of the first run removed.
Named ==
    /\ pc \in Naming => firstrun
    /\ pc \in {"reboot", "closing"} => ~firstrun
    /\ pc \in {"etchosts", "etchosts2", "skip", "app"} => hostname = "named"
    /\ pc \in {"skip", "app"} => HostsNamed

\* The stored configuration is accounted for by a marker, and behind
\* wifi-copy-config.sh it is that of the card.
Copied ==
    /\ firstrun /\ conf \in CardConfigs => wificopy \/ unmarked \/ pc = "marker"
    /\ pc \in {"copy", "copy2", "marker"} => card # NoCard
    /\ pc = "marker" => conf = card
    /\ pc \in Naming \cup {"first", "app"} /\ card # NoCard => conf = card
    /\ pc = "app" /\ firstrun => ~wificopy

SetupInv ==
    /\ TypeOK /\ Provisioned /\ Mounted /\ Named /\ Copied
    /\ NamedAfterSetup /\ IdentityKept

-----------------------------------------------------------------------------
\* A new device is in order.
LEMMA SetupInit == Init => SetupInv
<1> SUFFICES ASSUME Init PROVE SetupInv
  OBVIOUS
<1> USE CardAssumption, BoundsAssumption
    DEF Init, Provisioning, Launching, Running, Naming
<1>1. TypeOK
  <2>1. conf \in CardConfigs \cup {FactoryConf, "torn"} /\ bound \subseteq {"hostname", "hosts"}
    OBVIOUS
  <2>2. cuts \in 0..MaxCuts /\ stops \in 0..MaxStops /\ cards \in 0..MaxCards
    OBVIOUS
  <2> QED
    BY <2>1, <2>2 DEF TypeOK, NameFile
<1>2. Provisioned /\ Mounted
  BY DEF Provisioned, Mounted
<1>3. Named /\ Copied
  BY DEF Named, Copied
<1>4. NamedAfterSetup /\ IdentityKept
  BY DEF NamedAfterSetup, IdentityKept
<1> QED
  BY <1>1, <1>2, <1>3, <1>4 DEF SetupInv

\* Whether something is in a set is TRUE or FALSE.
LEMMA MembershipIsBoolean == ASSUME NEW x, NEW S PROVE (x \in S) \in BOOLEAN
  OBVIOUS

\* No step of the scripts, the app, an updater, the user or a power cut leaves
\* the invariant.
LEMMA SetupStep == SetupInv /\ [Next]_vars => SetupInv'
<1> SUFFICES ASSUME SetupInv, [Next]_vars PROVE SetupInv'
  OBVIOUS
<1> USE CardAssumption, BoundsAssumption
    DEF SetupInv, TypeOK, Provisioned, Mounted, Named, Copied, HostsNamed,
        NamedAfterSetup, IdentityKept, NameFile, Provisioning, Launching, Running, Naming,
        files, setup, system, bounds, history
<1>1. CASE PowerOn
  <2>1. TypeOK'
    BY <1>1 DEF PowerOn, Unprovisioned
  <2>2. Provisioned'
    BY <1>1 DEF PowerOn, Unprovisioned
  <2>3. Mounted'
    BY <1>1 DEF PowerOn, Unprovisioned
  <2>4. Named'
    BY <1>1 DEF PowerOn, Unprovisioned
  <2>5. Copied'
    BY <1>1 DEF PowerOn, Unprovisioned
  <2>6. NamedAfterSetup'
    BY <1>1 DEF PowerOn, Unprovisioned
  <2>7. IdentityKept'
    BY <1>1 DEF PowerOn, Unprovisioned
  <2> QED
    BY <2>1, <2>2, <2>3, <2>4, <2>5, <2>6, <2>7
<1>2. CASE Provision
  <2>1. TypeOK'
    BY <1>2 DEF Provision
  <2>2. Provisioned'
    BY <1>2 DEF Provision
  <2>3. Mounted'
    BY <1>2 DEF Provision
  <2>4. Named'
    BY <1>2 DEF Provision
  <2>5. Copied'
    BY <1>2 DEF Provision
  <2>6. NamedAfterSetup'
    BY <1>2 DEF Provision
  <2>7. IdentityKept'
    BY <1>2 DEF Provision
  <2> QED
    BY <2>1, <2>2, <2>3, <2>4, <2>5, <2>6, <2>7
<1>3. CASE Boot
  <2>1. TypeOK'
    BY <1>3 DEF Boot
  <2>2. Provisioned'
    BY <1>3 DEF Boot
  <2>3. Mounted'
    BY <1>3 DEF Boot
  <2>4. Named'
    BY <1>3 DEF Boot
  <2>5. Copied'
    BY <1>3 DEF Boot
  <2>6. NamedAfterSetup'
    BY <1>3 DEF Boot
  <2>7. IdentityKept'
    BY <1>3 DEF Boot
  <2> QED
    BY <2>1, <2>2, <2>3, <2>4, <2>5, <2>6, <2>7
<1>4. CASE NoCardFile
  <2>1. TypeOK'
    <3>1. (conf \in CardConfigs) \in BOOLEAN
      BY MembershipIsBoolean
    <3>2. unmarked' \in BOOLEAN
      BY <1>4, <3>1, Zenon DEF NoCardFile
    <3> QED
      BY <1>4, <3>2 DEF NoCardFile
  <2>2. Provisioned'
    BY <1>4 DEF NoCardFile
  <2>3. Mounted'
    BY <1>4 DEF NoCardFile
  <2>4. Named'
    BY <1>4 DEF NoCardFile
  <2>5. Copied'
    BY <1>4 DEF NoCardFile
  <2>6. NamedAfterSetup'
    BY <1>4 DEF NoCardFile
  <2>7. IdentityKept'
    BY <1>4 DEF NoCardFile
  <2> QED
    BY <2>1, <2>2, <2>3, <2>4, <2>5, <2>6, <2>7
<1>5. CASE CompareCardFile
  <2>1. TypeOK'
    BY <1>5 DEF CompareCardFile, AlreadyCopied
  <2>2. Provisioned'
    BY <1>5 DEF CompareCardFile, AlreadyCopied
  <2>3. Mounted'
    BY <1>5 DEF CompareCardFile, AlreadyCopied
  <2>4. Named'
    BY <1>5 DEF CompareCardFile, AlreadyCopied
  <2>5. Copied'
    BY <1>5 DEF CompareCardFile, AlreadyCopied
  <2>6. NamedAfterSetup'
    BY <1>5 DEF CompareCardFile, AlreadyCopied
  <2>7. IdentityKept'
    BY <1>5 DEF CompareCardFile, AlreadyCopied
  <2> QED
    BY <2>1, <2>2, <2>3, <2>4, <2>5, <2>6, <2>7
<1>6. CASE CopyCardFile
  <2>1. TypeOK'
    BY <1>6 DEF CopyCardFile
  <2>2. Provisioned'
    BY <1>6 DEF CopyCardFile
  <2>3. Mounted'
    BY <1>6 DEF CopyCardFile
  <2>4. Named'
    BY <1>6 DEF CopyCardFile
  <2>5. Copied'
    BY <1>6 DEF CopyCardFile
  <2>6. NamedAfterSetup'
    BY <1>6 DEF CopyCardFile
  <2>7. IdentityKept'
    BY <1>6 DEF CopyCardFile
  <2> QED
    BY <2>1, <2>2, <2>3, <2>4, <2>5, <2>6, <2>7
<1>7. CASE TouchMarker
  <2>1. TypeOK'
    BY <1>7 DEF TouchMarker
  <2>2. Provisioned'
    BY <1>7 DEF TouchMarker
  <2>3. Mounted'
    BY <1>7 DEF TouchMarker
  <2>4. Named'
    BY <1>7 DEF TouchMarker
  <2>5. Copied'
    BY <1>7 DEF TouchMarker
  <2>6. NamedAfterSetup'
    BY <1>7 DEF TouchMarker
  <2>7. IdentityKept'
    BY <1>7 DEF TouchMarker
  <2> QED
    BY <2>1, <2>2, <2>3, <2>4, <2>5, <2>6, <2>7
<1>8. CASE FirstRun
  <2>1. TypeOK'
    BY <1>8 DEF FirstRun
  <2>2. Provisioned'
    BY <1>8 DEF FirstRun
  <2>3. Mounted'
    BY <1>8 DEF FirstRun
  <2>4. Named'
    BY <1>8 DEF FirstRun
  <2>5. Copied'
    BY <1>8 DEF FirstRun
  <2>6. NamedAfterSetup'
    BY <1>8 DEF FirstRun
  <2>7. IdentityKept'
    BY <1>8 DEF FirstRun
  <2> QED
    BY <2>1, <2>2, <2>3, <2>4, <2>5, <2>6, <2>7
<1>9. CASE WriteNames
  <2>1. TypeOK'
    BY <1>9 DEF WriteNames
  <2>2. Provisioned'
    BY <1>9 DEF WriteNames
  <2>3. Mounted'
    BY <1>9 DEF WriteNames
  <2>4. Named'
    BY <1>9 DEF WriteNames
  <2>5. Copied'
    BY <1>9 DEF WriteNames
  <2>6. NamedAfterSetup'
    BY <1>9 DEF WriteNames
  <2>7. IdentityKept'
    BY <1>9 DEF WriteNames
  <2> QED
    BY <2>1, <2>2, <2>3, <2>4, <2>5, <2>6, <2>7
<1>10. CASE SkipSetup
  <2>1. TypeOK'
    BY <1>10 DEF SkipSetup
  <2>2. Provisioned'
    BY <1>10 DEF SkipSetup
  <2>3. Mounted'
    BY <1>10 DEF SkipSetup
  <2>4. Named'
    BY <1>10 DEF SkipSetup
  <2>5. Copied'
    BY <1>10 DEF SkipSetup
  <2>6. NamedAfterSetup'
    BY <1>10 DEF SkipSetup
  <2>7. IdentityKept'
    BY <1>10 DEF SkipSetup
  <2> QED
    BY <2>1, <2>2, <2>3, <2>4, <2>5, <2>6, <2>7
<1>11. CASE Reboot
  <2>1. TypeOK'
    BY <1>11 DEF Reboot
  <2>2. Provisioned'
    BY <1>11 DEF Reboot
  <2>3. Mounted'
    BY <1>11 DEF Reboot
  <2>4. Named'
    BY <1>11 DEF Reboot
  <2>5. Copied'
    BY <1>11 DEF Reboot
  <2>6. NamedAfterSetup'
    BY <1>11 DEF Reboot
  <2>7. IdentityKept'
    BY <1>11 DEF Reboot
  <2> QED
    BY <2>1, <2>2, <2>3, <2>4, <2>5, <2>6, <2>7
<1>12. CASE Shutdown
  <2>1. TypeOK'
    BY <1>12 DEF Shutdown
  <2>2. Provisioned'
    BY <1>12 DEF Shutdown
  <2>3. Mounted'
    BY <1>12 DEF Shutdown
  <2>4. Named'
    BY <1>12 DEF Shutdown
  <2>5. Copied'
    BY <1>12 DEF Shutdown
  <2>6. NamedAfterSetup'
    BY <1>12 DEF Shutdown
  <2>7. IdentityKept'
    BY <1>12 DEF Shutdown
  <2> QED
    BY <2>1, <2>2, <2>3, <2>4, <2>5, <2>6, <2>7
<1>13. CASE FinishSetup
  <2>1. TypeOK'
    BY <1>13 DEF FinishSetup
  <2>2. Provisioned'
    BY <1>13 DEF FinishSetup
  <2>3. Mounted'
    BY <1>13 DEF FinishSetup
  <2>4. Named'
    BY <1>13 DEF FinishSetup
  <2>5. Copied'
    BY <1>13 DEF FinishSetup
  <2>6. NamedAfterSetup'
    BY <1>13 DEF FinishSetup
  <2>7. IdentityKept'
    BY <1>13 DEF FinishSetup
  <2> QED
    BY <2>1, <2>2, <2>3, <2>4, <2>5, <2>6, <2>7
<1>14. CASE StopService
  <2>1. TypeOK'
    BY <1>14 DEF StopService
  <2>2. Provisioned'
    BY <1>14 DEF StopService
  <2>3. Mounted'
    BY <1>14 DEF StopService
  <2>4. Named'
    BY <1>14 DEF StopService
  <2>5. Copied'
    BY <1>14 DEF StopService
  <2>6. NamedAfterSetup'
    BY <1>14 DEF StopService
  <2>7. IdentityKept'
    BY <1>14 DEF StopService
  <2> QED
    BY <2>1, <2>2, <2>3, <2>4, <2>5, <2>6, <2>7
<1>15. CASE PowerCut
  <2>1. TypeOK'
    BY <1>15 DEF PowerCut
  <2>2. Provisioned'
    BY <1>15 DEF PowerCut
  <2>3. Mounted'
    BY <1>15 DEF PowerCut
  <2>4. Named'
    BY <1>15 DEF PowerCut
  <2>5. Copied'
    BY <1>15 DEF PowerCut
  <2>6. NamedAfterSetup'
    BY <1>15 DEF PowerCut
  <2>7. IdentityKept'
    BY <1>15 DEF PowerCut
  <2> QED
    BY <2>1, <2>2, <2>3, <2>4, <2>5, <2>6, <2>7
<1>16. CASE ChangeCard
  <2>1. TypeOK'
    BY <1>16 DEF ChangeCard
  <2>2. Provisioned'
    BY <1>16 DEF ChangeCard
  <2>3. Mounted'
    BY <1>16 DEF ChangeCard
  <2>4. Named'
    BY <1>16 DEF ChangeCard
  <2>5. Copied'
    BY <1>16 DEF ChangeCard
  <2>6. NamedAfterSetup'
    BY <1>16 DEF ChangeCard
  <2>7. IdentityKept'
    BY <1>16 DEF ChangeCard
  <2> QED
    BY <2>1, <2>2, <2>3, <2>4, <2>5, <2>6, <2>7
<1>17. CASE UNCHANGED vars
  BY <1>17 DEF vars
<1> QED
  BY <1>1, <1>2, <1>3, <1>4, <1>5, <1>6, <1>7, <1>8, <1>9, <1>10, <1>11, <1>12, <1>13, <1>14, <1>15, <1>16, <1>17 DEF Next, Script

-----------------------------------------------------------------------------
\* Every reachable state satisfies the invariant.
THEOREM SetupInvariant == Spec => []SetupInv
  BY SetupInit, SetupStep, PTL DEF Spec

\* The variables have their types.
THEOREM SetupTypeCorrect == Spec => []TypeOK
<1>1. SetupInv => TypeOK
  BY DEF SetupInv
<1> QED
  BY <1>1, SetupInvariant, PTL

\* Once the first run is over the names are written (firstrun.sh).
THEOREM NamesWritten == Spec => []NamedAfterSetup
<1>1. SetupInv => NamedAfterSetup
  BY DEF SetupInv
<1> QED
  BY <1>1, SetupInvariant, PTL

\* The machine id is the stored one unless the provisioning was cut off
\* (init-overlay.sh).
THEOREM IdentityStored == Spec => []IdentityKept
<1>1. SetupInv => IdentityKept
  BY DEF SetupInv
<1> QED
  BY <1>1, SetupInvariant, PTL

\* A WiFi configuration on the card skips the first setup, but for the two
\* interruptions that lose its marker (wifi-copy-config.sh, firstrun.sh).
THEOREM SetupIsSkipped == Spec => []SetupSkipped
<1>1. SetupInv => SetupSkipped
  BY DEF SetupInv, TypeOK, Copied, SetupSkipped
<1> QED
  BY <1>1, SetupInvariant, PTL

=============================================================================
