SPECIFICATION FairSpec
CONSTANTS
    CardConfigs <- TwoConfigs
    NoCard = NoCard
    FactoryConf = FactoryConf
    MaxCuts = 2
    MaxStops = 2
    MaxCards = 2
INVARIANTS
    TypeOK
    NamedAfterSetup
    IdentityKept
    SetupSkipped
PROPERTIES
    CardConfigStored
    AppRuns
CHECK_DEADLOCK FALSE
