SPECIFICATION FairSpec
CONSTANTS
    Values = {a, b}
    Capacity = 3
INVARIANTS
    TypeOK
    NoSlotRace
PROPERTIES
    ImplementsFifo
    FrontLeaves
