\* Two requests at a time and two in all; a day is two units of three nanoseconds.
SPECIFICATION Spec
CONSTANTS
    ta = ta
    tb = tb
    ka = ka
    kb = kb
    Tenant = {ta, tb}
    Secret = {ka, kb}
    None = None
    Malformed = Malformed
    Deployments <- SomeDeployments
    Exporter = {x, y}
    Batches <- SomeBatches
    SpanId = {"p", "q", "r"}
    Nanos = 3
    MaxDuration = 2
    Limit = 2
    PageSizes = {0, 3}
    MaxExports = 2
    MaxFaults = 1
SYMMETRY Symmetry
CHECK_DEADLOCK FALSE
INVARIANTS
    TypeOK
    AccessFollowsKeys
    SpanStoredOnce
    BadSpansSpareTheRest
    
    
