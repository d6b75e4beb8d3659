SPECIFICATION Spec
CONSTANTS
    Components <- WebOnly
    Files = {f1, f2}
    Offers <- PlainOffers
    MaxOffers = 1
    MaxFaults = 0
    MaxCuts = 1
    NoDir = NoDir
    NoArchive = NoArchive
INVARIANTS
    SwitchIsAtomic
CHECK_DEADLOCK FALSE
