SPECIFICATION Spec
CONSTANTS
    TypeOf <- SymbolTypes
    ModulesSym = "MODULES"
    Symbols <- TwoSymbols
    Selectable <- OnlyB
    ConfigDeps <- SomeDeps
    PromptConds <- SomeConds
    PropConds <- SomePropConds
    BlockDeps <- SomeBlocks
    Defaults <- SomeDefaults
    Valuations <- AllValuations
    MaxNodes = 3
    MaxProps = 1
INVARIANTS
    KeepsOrder
    PromptsKeepMeaning
    SubmenusReachable
    LoopsReported
CHECK_DEADLOCK FALSE
