SPECIFICATION Spec
CONSTANTS
    BootLimit = 3
    StartLimitBurst = 2
    Packages <- AllPackages
    MaxUpdates = 1
    MaxCuts = 0
PROPERTIES
    MarkedOkIsRunning
CHECK_DEADLOCK FALSE
