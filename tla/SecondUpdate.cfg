SPECIFICATION Spec
CONSTANTS
    BootLimit = 3
    StartLimitBurst = 2
    Packages <- AllPackages
    MaxUpdates = 2
    MaxCuts = 4
PROPERTIES
    RollbackLandsOnOld
CHECK_DEADLOCK FALSE
