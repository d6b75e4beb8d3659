SPECIFICATION Spec
CONSTANTS
  TypeOf <- SymbolTypes
  ModulesSym = "MODULES"
  ChoiceSymbols <- OneChoice
  NumberOf <- Numbers
  Sources <- SomeSources
  Changes <- OneChange
  Entered <- EnteredValues
  MaxEdits = 1
  MaxTargets = 2
  MaxInterrupts = 1
  MaxUpgrades = 1
INVARIANTS
  RebuildsWhatWasSaved
  AsksOnlyWhatIsNew
  BuildsWhatConfigSays
  AsksOnce
PROPERTIES
  CopiedBeforeTouched
CHECK_DEADLOCK FALSE
