SPECIFICATION FairSpec
CONSTANTS
    Components <- AllComponents
    Files = {f1, f2}
    Offers <- AllOffers
    MaxOffers = 2
    MaxFaults = 2
    MaxCuts = 2
    NoDir = NoDir
    NoArchive = NoArchive
INVARIANTS
    TypeOK
    CompleteSomewhere
    SuccessReplacesAll
PROPERTIES
    PluginsNeverLost
    ChangedOnlyWhenStopped
    ServiceRestored
    Converges
    ImplementsReplacement
CHECK_DEADLOCK FALSE
