\* docs/production-readiness.md and README.md: the ledger is restored at start.
SPECIFICATION Spec
CONSTANTS
    Tenant = {t}
    Handler = {h1, h2}
    MaxReports = 2
    MaxFaults = 1
    NoTenant = NoTenant
CHECK_DEADLOCK FALSE
INVARIANTS
    RestartRestoresLedger
