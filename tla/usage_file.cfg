\* Three requests at a time, with failed writes and restarts.
SPECIFICATION Spec
CONSTANTS
    Tenant = {t, u}
    Handler = {h1, h2, h3}
    MaxReports = 4
    MaxFaults = 2
    NoTenant = NoTenant
SYMMETRY Symmetry
CHECK_DEADLOCK FALSE
INVARIANTS
    TypeOK
    
    LoadsUnlessDisturbed
PROPERTIES
    UsageNeverShrinks
