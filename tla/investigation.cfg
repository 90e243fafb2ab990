\* Two requests at a time, for two tenants that use the same key and share an
\* evidence ID, which may move from one to the other, with two possible
\* objectives.
SPECIFICATION FairSpec
CONSTANTS
    Tenant = {t, u}
    Key = {k1}
    EvidenceId = {e}
    Objective = {o1, o2}
    Requests <- AllRequests
    RunId = {r1, r2}
    Handler = {h1, h2}
    NoTenant = NoTenant
    MaxReports = 1
    MaxIngests = 2
    MaxFaults = 1
INVARIANTS
    TypeOK
    MeteredOnce
    KeyBindsOneRun
    
PROPERTIES
    CompletedIsFinal
    ImplementsMetering
    RunCompletes
