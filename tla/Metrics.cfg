\* Two calls of two or three data each, in chunks of two; one stop.
CONSTANTS
    Calls = {c1, c2}
    Limit = 2
    MaxStops = 1
    Faults = TRUE
SPECIFICATION FairSpec
INVARIANTS
    TypeOK
    NothingVanishes
    PublishedInOrder
PROPERTY MemoryDrains
