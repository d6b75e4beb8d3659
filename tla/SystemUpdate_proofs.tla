------------------------- MODULE SystemUpdate_proofs -------------------------
(***************************************************************************)
(* Proofs about SystemUpdate: type correctness, the inductive invariant    *)
(* IInv, and from it the safety properties of the A/B update, for every    *)
(* boot limit, start limit, set of packages and bound.                     *)
(***************************************************************************)
EXTENDS SystemUpdate, TLAPS

Linuxes == {"kernel", "up"}

\* U-Boot's copy differs from the saved environment in the count only.
RamInv ==
    stage \in {"altboot", "script"} =>
        /\ ram.boot_slot = env.boot_slot
        /\ ram.upgrade_available = env.upgrade_available
        /\ ram.altbootcmd = env.altbootcmd

\* Before Linux runs no process of it is under way.
IdleInv == stage # "up" => sw = "idle" /\ check = "armed"

\* The running system: its root is the boot slot, until SWUpdate commits.
RootInv ==
    stage \in Linuxes =>
        /\ root \in Slots
        /\ env.boot_slot = IF sw = "done" THEN Other(root) ELSE root
        /\ env.altbootcmd
        /\ Loads(image[root])
        /\ stage = "up" => Inits(image[root])
        /\ check \in {"read", "clear"} => Lasts(image[root])
        /\ check = "clear" => env.upgrade_available

\* The slot being written is not verified; the system writing it is, unless
\* the update overlaps a trial.
WriteInv ==
    /\ sw = "writing" => Other(root) \notin verified
    /\ sw \in {"writing", "commit"} /\ ~overlapped => root \in verified

\* A first boot finds the images the device was shipped with.
FactoryInv == env.boot_slot = NoSlot => verified = Slots /\ ~env.upgrade_available

\* In a trial the saved count is the number of power-ons since the slot was set.
CountInv ==
    /\ env.upgrade_available =>
        \/ env.bootcount = boots
        \/ boots = BootLimit + 1 /\ env.bootcount > BootLimit
    /\ stage = "altboot" => env.upgrade_available /\ boots = BootLimit + 1
    /\ stage = "script" /\ env.upgrade_available => boots <= BootLimit
    /\ check = "zero" /\ env.upgrade_available => boots = 0

IInv ==
    /\ TypeOK
    /\ RamInv
    /\ IdleInv
    /\ RootInv
    /\ WriteInv
    /\ FactoryInv
    /\ CountInv
    /\ OnlyVerifiedIsFinal
    /\ RollbackTargetVerified
    /\ VerifiedKeepsWorking
    /\ RollbackArmed

-----------------------------------------------------------------------------
(* Type correctness *)

\* TypeOK alone is not inductive: the check adds the mounted root to the
\* verified slots, so a running system must have one.
TypeInv == TypeOK /\ (stage \in Linuxes => root \in Slots)

\* Whatever root it is given, rootfs.sh, like altbootcmd, answers with a slot.
LEMMA OtherIsSlot == ASSUME NEW s PROVE Other(s) \in Slots
  BY DEF Other, Slots

\* The other of the other slot is the slot.
LEMMA OtherTwice == ASSUME NEW s \in Slots PROVE Other(Other(s)) = s /\ Other(s) # s
  BY DEF Other, Slots

\* The initial state is type correct.
LEMMA TypeInvariantInit == Init => TypeInv
<1> USE BootLimitAssumption, BurstAssumption, PackagesAssumption, BoundsAssumption
      DEF TypeInv, Linuxes, TypeOK, Env, Slots, Kinds
<1> SUFFICES ASSUME Init PROVE TypeInv
  OBVIOUS
<1>1. env \in Env /\ ram \in Env
  BY DEF Init, DefaultEnv, NoSlot
<1>2. image \in [Slots -> Kinds \cup {"torn"}] /\ verified \subseteq Slots
  BY DEF Init
<1>3. starts \in 0..StartLimitBurst /\ boots \in 0..(BootLimit + 1)
  BY DEF Init
<1>4. updates \in 0..MaxUpdates /\ cuts \in 0..MaxCuts
  BY DEF Init
<1> QED
  BY <1>1, <1>2, <1>3, <1>4 DEF Init, NoSlot

\* No step of the boot loader, the services, SWUpdate or a power cut leaves
\* the declared domains.
LEMMA TypeInvariant == Spec => []TypeInv
<1> USE BootLimitAssumption, BurstAssumption, PackagesAssumption, BoundsAssumption
      DEF TypeInv, Linuxes, TypeOK, Env, Slots, Kinds
<1>1. Init => TypeInv
  BY TypeInvariantInit
<1>2. TypeInv /\ [Next]_vars => TypeInv'
  <2> SUFFICES ASSUME TypeInv, [Next]_vars PROVE TypeInv'
    OBVIOUS
  <2> USE DEF vars, flash, machine, service, bounds, history, NoSlot, Restart, DefaultEnv
  <2>1. CASE PowerOn
    <3>1. BootCount + 1 \in Nat
      BY DEF BootCount
    <3>2. ram' \in Env /\ env' \in Env
      BY <2>1, <3>1 DEF PowerOn
    <3>3. boots' \in 0..(BootLimit + 1)
      BY <2>1 DEF PowerOn
    <3> QED
      BY <2>1, <3>2, <3>3 DEF PowerOn
  <2>2. CASE AltBoot
    <3>1. Other(ram.boot_slot) \in Slots
      BY OtherIsSlot
    <3>2. ram' \in Env
      BY <2>2, <3>1 DEF AltBoot
    <3> QED
      BY <2>2, <3>2 DEF AltBoot
  <2>3. CASE DefaultSlot
    BY <2>3 DEF DefaultSlot
  <2>4. CASE CreateAltbootcmd
    BY <2>4 DEF CreateAltbootcmd
  <2>5. CASE LoadKernel
    BY <2>5 DEF LoadKernel, ScriptReady
  <2>6. CASE LoadFails
    BY <2>6 DEF LoadFails, ScriptReady
  <2>7. CASE InitSystem
    BY <2>7 DEF InitSystem
  <2>8. CASE KernelPanic
    BY <2>8 DEF KernelPanic
  <2>9. CASE AppStart
    BY <2>9 DEF AppStart
  <2>10. CASE AppExit
    BY <2>10 DEF AppExit
  <2>11. CASE StartLimitHit
    BY <2>11 DEF StartLimitHit
  <2>12. CASE IntervalElapses
    BY <2>12 DEF IntervalElapses
  <2>13. CASE TimerElapses
    BY <2>13 DEF TimerElapses
  <2>14. CASE ReadUpgradeAvailable
    BY <2>14 DEF ReadUpgradeAvailable
  <2>15. CASE ClearUpgradeAvailable
    <3>1. env' \in Env
      BY <2>15 DEF ClearUpgradeAvailable
    <3>2. verified' \subseteq Slots
      BY <2>15 DEF ClearUpgradeAvailable
    <3> QED
      BY <2>15, <3>1, <3>2 DEF ClearUpgradeAvailable
  <2>16. CASE ZeroBootcount
    BY <2>16 DEF ZeroBootcount
  <2>17. CASE UpdateStart
    BY <2>17 DEF UpdateStart, UpdateTarget, Other
  <2>18. CASE UpdateWritten
    BY <2>18 DEF UpdateWritten, UpdateTarget, Other
  <2>19. CASE UpdateFails
    BY <2>19 DEF UpdateFails
  <2>20. CASE UpdateCommit
    <3>1. UpdateTarget \in Slots
      BY OtherIsSlot DEF UpdateTarget
    <3>2. env' \in Env
      BY <2>20, <3>1 DEF UpdateCommit
    <3> QED
      BY <2>20, <3>2 DEF UpdateCommit
  <2>21. CASE PostUpdate
    BY <2>21 DEF PostUpdate
  <2>22. CASE PowerCut
    BY <2>22 DEF PowerCut
  <2>23. CASE UNCHANGED vars
    BY <2>23
  <2> QED
    BY <2>1, <2>2, <2>3, <2>4, <2>5, <2>6, <2>7, <2>8, <2>9, <2>10, <2>11, <2>12, <2>13, <2>14, <2>15, <2>16, <2>17, <2>18, <2>19, <2>20, <2>21, <2>22, <2>23 DEF Next, UBoot, Linux, Check, SWUpdate
<1>3. QED
  BY <1>1, <1>2, PTL DEF Spec

\* The type invariant holds in every reachable state; the start limit bounds
\* the count of the app's starts.
THEOREM TypeCorrect == Spec => []TypeOK
  BY TypeInvariant, PTL DEF TypeInv

-----------------------------------------------------------------------------
(* The inductive invariant *)

\* Every step of the system keeps IInv; TypeInv is kept by TypeInvariant.
LEMMA InductiveStep == IInv /\ TypeInv /\ TypeInv' /\ [Next]_vars => IInv'
<1> SUFFICES ASSUME IInv, TypeInv, TypeInv', [Next]_vars PROVE IInv'
  OBVIOUS
<1> USE BootLimitAssumption, PackagesAssumption DEF IInv, TypeInv, TypeOK, Env, Slots, NoSlot, Linuxes,
    RamInv, IdleInv, RootInv, WriteInv, FactoryInv, CountInv,
    OnlyVerifiedIsFinal, RollbackTargetVerified, VerifiedKeepsWorking, RollbackArmed
<1> USE DEF vars, flash, machine, service, bounds, history, Restart, DefaultEnv
<1>1. CASE PowerOn
  BY <1>1 DEF PowerOn, BootCount
<1>2. CASE AltBoot
  BY <1>2 DEF AltBoot, Other
<1>3. CASE DefaultSlot
  BY <1>3 DEF DefaultSlot
<1>4. CASE CreateAltbootcmd
  BY <1>4 DEF CreateAltbootcmd
<1>5. CASE LoadKernel
  BY <1>5 DEF LoadKernel, ScriptReady
<1>6. CASE LoadFails
  BY <1>6 DEF LoadFails, ScriptReady
<1>7. CASE InitSystem
  BY <1>7 DEF InitSystem
<1>8. CASE KernelPanic
  BY <1>8 DEF KernelPanic
<1>9. CASE AppStart
  BY <1>9 DEF AppStart
<1>10. CASE AppExit
  BY <1>10 DEF AppExit
<1>11. CASE StartLimitHit
  BY <1>11 DEF StartLimitHit
<1>12. CASE IntervalElapses
  BY <1>12 DEF IntervalElapses
<1>13. CASE TimerElapses
  BY <1>13 DEF TimerElapses
<1>14. CASE ReadUpgradeAvailable
  BY <1>14 DEF ReadUpgradeAvailable
<1>15. CASE ClearUpgradeAvailable
  <2> USE <1>15 DEF ClearUpgradeAvailable
  <2>1. /\ env' = [env EXCEPT !.upgrade_available = FALSE]
        /\ ~env'.upgrade_available
        /\ root \in Slots /\ verified' = verified \cup {root}
    OBVIOUS
  <2>2. RamInv' /\ IdleInv' /\ RootInv' /\ CountInv' /\ RollbackArmed' /\ RollbackTargetVerified'
    BY <2>1
  <2>3. WriteInv' /\ FactoryInv'
    BY <2>1, OtherTwice
  <2>4. OnlyVerifiedIsFinal'
    BY <2>1
  <2>5. VerifiedKeepsWorking'
    BY <2>1
  <2> QED
    BY <2>2, <2>3, <2>4, <2>5
<1>16. CASE ZeroBootcount
  BY <1>16 DEF ZeroBootcount
<1>17. CASE UpdateStart
  BY <1>17 DEF UpdateStart, UpdateTarget, Other
<1>18. CASE UpdateWritten
  BY <1>18 DEF UpdateWritten, UpdateTarget, Other
<1>19. CASE UpdateFails
  BY <1>19 DEF UpdateFails
<1>20. CASE UpdateCommit
  BY <1>20 DEF UpdateCommit, UpdateTarget, Other
<1>21. CASE PostUpdate
  BY <1>21 DEF PostUpdate
<1>22. CASE PowerCut
  BY <1>22 DEF PowerCut
<1>23. CASE UNCHANGED vars
  BY <1>23
<1> QED
  BY <1>1, <1>2, <1>3, <1>4, <1>5, <1>6, <1>7, <1>8, <1>9, <1>10, <1>11, <1>12, <1>13, <1>14, <1>15, <1>16, <1>17, <1>18, <1>19, <1>20, <1>21, <1>22, <1>23 DEF Next, UBoot, Linux, Check, SWUpdate

\* IInv holds in every reachable state.
LEMMA Invariance == Spec => []IInv
<1>1. Init => IInv
  <2> SUFFICES ASSUME Init PROVE IInv
    OBVIOUS
  <2>1. TypeOK
    BY TypeInvariantInit DEF TypeInv
  <2>2. RamInv /\ IdleInv /\ RootInv /\ WriteInv /\ FactoryInv /\ CountInv
    BY DEF Init, DefaultEnv, NoSlot, Linuxes, RamInv, IdleInv, RootInv, WriteInv,
       FactoryInv, CountInv
  <2>3. OnlyVerifiedIsFinal /\ RollbackTargetVerified /\ VerifiedKeepsWorking /\ RollbackArmed
    BY DEF Init, DefaultEnv, NoSlot, OnlyVerifiedIsFinal, RollbackTargetVerified,
       VerifiedKeepsWorking, RollbackArmed, Loads, Inits, Lasts
  <2> QED
    BY <2>1, <2>2, <2>3 DEF IInv
<1>2. QED
  BY <1>1, TypeInvariant, InductiveStep, PTL DEF Spec

-----------------------------------------------------------------------------
(* The properties *)

\* No crash, failed update or rollback makes an unverified image final; only a
\* check that races with a commit can.
THEOREM FinalIsVerified == Spec => []OnlyVerifiedIsFinal
  BY Invariance, PTL DEF IInv

\* A pending trial always has the altbootcmd that ends it, and as long as
\* updates start from verified systems the rollback of a failing image leads
\* to a verified one.
THEOREM RollbackIsSafe == Spec => []RollbackReady
  BY Invariance, PTL DEF IInv, RollbackReady

\* What the good boot check has passed is complete, boots and lasts until
\* SWUpdate overwrites it.
THEOREM VerifiedWorks == Spec => []VerifiedKeepsWorking
  BY Invariance, PTL DEF IInv

\* SWUpdate never writes the mounted root.
THEOREM RootIntact == Spec => []RunningRootIntact
<1>1. IInv => RunningRootIntact
  BY DEF IInv, RootInv, Linuxes, RunningRootIntact
<1>2. QED
  BY <1>1, Invariance, PTL

\* A slot on trial is started at most BootLimit power-ons after it was set.
THEOREM TrialIsBounded == Spec => []TrialBudget
<1>1. IInv => TrialBudget
  BY DEF IInv, RamInv, CountInv, TrialBudget
<1>2. QED
  BY <1>1, Invariance, PTL

\* U-Boot leaves a slot only in a trial and only after BootLimit power-ons:
\* a system marked OK is never left, whatever count an interrupted check left.
THEOREM RollbackIsLastResort == Spec => RollbackOnlyWhenExhausted
<1> DEFINE Exhausted ==
      env.boot_slot # NoSlot /\ env'.boot_slot # env.boot_slot /\ sw # "commit"
        => env.upgrade_available /\ boots > BootLimit
<1>1. IInv /\ TypeInv /\ [Next]_vars => [Exhausted]_vars
  <2> SUFFICES ASSUME IInv, TypeInv, Next PROVE Exhausted
    OBVIOUS
  <2>1. CASE AltBoot
    BY <2>1, BootLimitAssumption DEF AltBoot, IInv, CountInv
  <2>2. CASE DefaultSlot
    BY <2>2 DEF DefaultSlot, IInv, RamInv
  <2>3. CASE UpdateCommit
    BY <2>3 DEF UpdateCommit
  <2>4. CASE ~(AltBoot \/ DefaultSlot \/ UpdateCommit)
    <3>1. env'.boot_slot = env.boot_slot
      BY <2>4 DEF Next, UBoot, Linux, Check, SWUpdate, flash, TypeInv, TypeOK, Env,
         PowerOn, CreateAltbootcmd, LoadKernel, LoadFails, InitSystem, KernelPanic,
         AppStart, AppExit, StartLimitHit, IntervalElapses, TimerElapses,
         ReadUpgradeAvailable, ClearUpgradeAvailable, ZeroBootcount, UpdateStart,
         UpdateWritten, UpdateFails, PostUpdate, PowerCut, IInv, RamInv
    <3> QED
      BY <3>1
  <2> QED
    BY <2>1, <2>2, <2>3, <2>4
<1>2. QED
  BY <1>1, Invariance, TypeInvariant, PTL DEF Spec, RollbackOnlyWhenExhausted

-----------------------------------------------------------------------------
(* Refinement *)

\* A step that leaves the environment and the verified slots alone is
\* invisible to the abstract update.
LEMMA InvisibleStep == UNCHANGED <<env, verified>> => UNCHANGED AB!vars
  BY DEF AB!vars, activeSlot, triesUsed

\* The changes of slot, trial and count a step may make without being seen.
LEMMA UnseenChange ==
  ASSUME activeSlot' = activeSlot, env'.upgrade_available = env.upgrade_available,
         triesUsed' = triesUsed, verified' = verified
  PROVE  UNCHANGED AB!vars
  BY DEF AB!vars

\* Until a race every step of the system is a step of the abstract update or
\* invisible to it: in particular a power-on uses up one of the tries, what
\* altbootcmd does is a rollback with all tries used, and no crash between
\* two saves of the environment shows.
THEOREM Refinement == Spec => ImplementsAB
<1>1. Init => AB!Init
  BY DEF Init, DefaultEnv, AB!Init, activeSlot, triesUsed, AB!Slots, Slots
<1>2. ASSUME IInv, TypeInv, TypeInv', Next, ~raced' PROVE [AB!Next]_(AB!vars)
  <2> USE <1>2, BootLimitAssumption DEF IInv, TypeInv, TypeOK, Env, history
  <2>1. CASE PowerOn
    <3> USE <2>1 DEF PowerOn, BootCount
    <3>1. activeSlot' = activeSlot /\ env'.upgrade_available = env.upgrade_available
          /\ verified' = verified
      BY DEF activeSlot
    <3>2. CASE triesUsed' = triesUsed
      BY <3>1, <3>2, UnseenChange
    <3>3. CASE triesUsed' # triesUsed
      <4>1. env.upgrade_available /\ triesUsed < BootLimit /\ triesUsed' = triesUsed + 1
        BY <3>3 DEF triesUsed
      <4> QED
        BY ONLY <3>1, <4>1 DEF AB!Next, AB!Try
    <3> QED
      BY <3>2, <3>3
  <2>2. CASE AltBoot
    <3> USE <2>2 DEF AltBoot, RamInv, CountInv, FactoryInv, Slots, NoSlot
    <3>1. env.upgrade_available /\ env'.upgrade_available = env.upgrade_available
          /\ verified' = verified
      OBVIOUS
    <3>2. triesUsed = BootLimit /\ triesUsed' = 0
      BY <3>1 DEF triesUsed
    <3>3. activeSlot' = AB!Other(activeSlot)
      BY <3>1 DEF activeSlot, Other, AB!Other
    <3> QED
      BY ONLY <3>1, <3>2, <3>3 DEF AB!Next, AB!Rollback
  <2>3. CASE DefaultSlot
    <3> USE <2>3 DEF DefaultSlot, RamInv, FactoryInv, NoSlot
    <3>1. env.upgrade_available = FALSE /\ verified' = verified
      OBVIOUS
    <3>2. env'.upgrade_available = FALSE
      BY <3>1
    <3>3. activeSlot' = activeSlot
      BY DEF activeSlot
    <3>4. triesUsed' = triesUsed
      BY <3>1, <3>2 DEF triesUsed
    <3> QED
      BY ONLY <3>1, <3>2, <3>3, <3>4, UnseenChange
  <2>4. CASE CreateAltbootcmd
    <3> USE <2>4 DEF CreateAltbootcmd, RamInv, RollbackArmed
    <3>1. env.upgrade_available = FALSE /\ verified' = verified
      OBVIOUS
    <3>2. env'.upgrade_available = FALSE /\ env'.boot_slot = env.boot_slot
      BY <3>1
    <3>3. activeSlot' = activeSlot
      BY <3>2 DEF activeSlot
    <3>4. triesUsed' = triesUsed
      BY <3>1, <3>2 DEF triesUsed
    <3> QED
      BY ONLY <3>1, <3>2, <3>3, <3>4, UnseenChange
  <2>5. CASE ClearUpgradeAvailable
    <3> USE <2>5 DEF ClearUpgradeAvailable, RootInv, Linuxes, Slots, NoSlot
    <3>1. activeSlot' = activeSlot /\ root = activeSlot
      BY DEF activeSlot
    <3>2. ~env'.upgrade_available /\ triesUsed' = 0
      BY DEF triesUsed
    <3>3. verified' = verified \cup {activeSlot}
      BY <3>1
    <3>4. env.upgrade_available = TRUE /\ env'.upgrade_available = FALSE
      OBVIOUS
    <3> QED
      BY ONLY <3>1, <3>2, <3>3, <3>4 DEF AB!Next, AB!Confirm
  <2>6. CASE ZeroBootcount
    <3> USE <2>6 DEF ZeroBootcount, CountInv
    <3>1. /\ env'.upgrade_available = env.upgrade_available /\ verified' = verified
          /\ env'.boot_slot = env.boot_slot /\ env'.bootcount = 0
      OBVIOUS
    <3>2. env.upgrade_available => env.bootcount = 0
      OBVIOUS
    <3>3. activeSlot' = activeSlot
      BY ONLY <3>1 DEF activeSlot
    <3>4. triesUsed' = triesUsed
      BY ONLY <3>1, <3>2, BootLimitAssumption DEF triesUsed
    <3> QED
      BY ONLY <3>1, <3>3, <3>4, UnseenChange
  <2>7. CASE UpdateStart
    <3> USE <2>7 DEF UpdateStart, UpdateTarget, RootInv, Linuxes, Slots, NoSlot
    <3>1. env' = env /\ root = activeSlot
      BY DEF activeSlot
    <3>2. verified' = verified \ {AB!Other(activeSlot)}
      BY <3>1 DEF Other, AB!Other
    <3>3. activeSlot' = activeSlot /\ triesUsed' = triesUsed
      BY <3>1 DEF activeSlot, triesUsed
    <3> QED
      BY ONLY <3>1, <3>2, <3>3 DEF AB!Next, AB!Install
  <2>8. CASE UpdateCommit
    <3> USE <2>8 DEF UpdateCommit, UpdateTarget, RootInv, Linuxes, Slots, NoSlot
    <3>1. env'.upgrade_available = TRUE /\ verified' = verified
      OBVIOUS
    <3>2. triesUsed' = 0
      BY <3>1 DEF triesUsed
    <3>3. activeSlot' = AB!Other(activeSlot)
      BY DEF activeSlot, Other, AB!Other
    <3> QED
      BY ONLY <3>1, <3>2, <3>3 DEF AB!Next, AB!Activate
  <2>9. CASE UNCHANGED <<env, verified>>
    BY <2>9, InvisibleStep
  <2>10. ~(PowerOn \/ AltBoot \/ DefaultSlot \/ CreateAltbootcmd \/ ClearUpgradeAvailable
           \/ ZeroBootcount \/ UpdateStart \/ UpdateCommit) => UNCHANGED <<env, verified>>
    BY DEF Next, UBoot, Linux, Check, SWUpdate, flash, history, LoadKernel, LoadFails,
       InitSystem, KernelPanic, AppStart, AppExit, StartLimitHit, IntervalElapses,
       TimerElapses, ReadUpgradeAvailable, UpdateWritten, UpdateFails, PostUpdate, PowerCut
  <2> QED
    BY <2>1, <2>2, <2>3, <2>4, <2>5, <2>6, <2>7, <2>8, <2>9, <2>10
<1>3. ASSUME UNCHANGED vars PROVE [AB!Next]_(AB!vars)
  BY <1>3, InvisibleStep DEF vars, flash, history
<1>4. IInv /\ TypeInv /\ TypeInv' /\ [Next]_vars => [raced' \/ AB!Next]_(AB!vars)
  BY <1>2, <1>3
<1>5. QED
  BY <1>1, <1>4, Invariance, TypeInvariant, PTL DEF Spec, ImplementsAB, AB!Spec

=============================================================================
