SPECIFICATION FairSpec
CONSTANTS
    BootLimit = 3
    StartLimitBurst = 2
    Packages <- AllPackages
    MaxUpdates = 1
    MaxCuts = 0
PROPERTIES
    FailedCheckReboots
CHECK_DEADLOCK FALSE
