\* CONTEXT.md: an Observation is an immutable runtime fact.
SPECIFICATION Spec
CONSTANTS
    Id = {a}
    Tenant = {t}
    Body = {x, y}
    Observations <- AllObservations
    NoObservation = NoObservation
    MaxBatch = 2
    Batches <- AllBatches
    Process = {p}
    MaxAttempts = 2
    LeaseUnits = 4
    ClockSkew = 0
    MaxNow = 9
    Horizon = 9
    MaxRequests = 3
    MaxFaults = 2
PROPERTIES
    ObservationImmutable
