SPECIFICATION FairSpec
CONSTANTS
    BootLimit = 3
    StartLimitBurst = 2
    Packages <- AllPackages
    MaxUpdates = 3
    MaxCuts = 5
INVARIANTS
    TypeOK
    OnlyVerifiedIsFinal
    RollbackReady
    VerifiedKeepsWorking
    RunningRootIntact
    TrialBudget
PROPERTIES
    RollbackOnlyWhenExhausted
    EventuallyRunning
    ImplementsAB
CHECK_DEADLOCK FALSE
