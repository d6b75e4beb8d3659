SPECIFICATION Spec
CONSTANTS
    Components <- AppOnly
    Files = {f1, f2}
    Offers <- PlainOffers
    MaxOffers = 1
    MaxFaults = 0
    MaxCuts = 0
    NoDir = NoDir
    NoArchive = NoArchive
INVARIANTS
    UpdatesTheApp
CHECK_DEADLOCK FALSE
