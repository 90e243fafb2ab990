\* docs/production-readiness.md: observations can be read again; no faults here.
SPECIFICATION Spec
CONSTANTS
    Handler = {h1, h2}
    Slots = 2
    MaxBatch = 1
    MaxRequests = 2
    MaxFaults = 0
CHECK_DEADLOCK FALSE
INVARIANTS
    CreatedIsReadable
