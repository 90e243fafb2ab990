\* Two requests at a time and one slot, with a failed write or a restart.
SPECIFICATION Spec
CONSTANTS
    Handler = {h1, h2}
    Slots = 1
    MaxBatch = 2
    MaxRequests = 3
    MaxFaults = 1
SYMMETRY Symmetry
CHECK_DEADLOCK FALSE
INVARIANTS
    TypeOK
    StoredIsPrefix
    CountedIsStored
    SlotsAccounted
