SPECIFICATION Spec
CONSTANTS
    Components <- PluginOnly
    Files = {f1, f2}
    Offers <- AllOffers
    MaxOffers = 1
    MaxFaults = 0
    MaxCuts = 0
    NoDir = NoDir
    NoArchive = NoArchive
INVARIANTS
    InstalledIsFinished
CHECK_DEADLOCK FALSE
