\* One API process, as the documents promise: two observations of two tenants,
\* one of which may be sent again with another body.  Clients and faults stop at
\* Horizon; the worker keeps polling.
SPECIFICATION FairSpec
CONSTANTS
    Id = {a, b}
    Tenant = {t, u}
    Body = {x, y}
    Observations <- SomeObservations
    NoObservation = NoObservation
    MaxBatch = 2
    Batches <- SomeBatches
    Process = {p}
    MaxAttempts = 2
    LeaseUnits = 4
    ClockSkew = 1
    MaxNow = 7
    Horizon = 1
    MaxRequests = 2
    MaxFaults = 2

    
PROPERTIES
    AckOnlyStored
    EventuallySettled
