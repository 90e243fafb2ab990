\* Two API processes on one database file, against the delivery contract.
SPECIFICATION Spec
CONSTANTS
    Id = {a}
    Tenant = {t}
    Body = {x}
    Observations <- AllObservations
    NoObservation = NoObservation
    MaxBatch = 2
    Batches <- AllBatches
    Process = {p, q}
    MaxAttempts = 1
    LeaseUnits = 4
    ClockSkew = 0
    MaxNow = 5
    Horizon = 5
    MaxRequests = 3
    MaxFaults = 2
SYMMETRY ProcessSymmetry
INVARIANTS
    TypeOK
    RetryBudget
    AcceptedIsDurable
PROPERTIES
    ImplementsDelivery
