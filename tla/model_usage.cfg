\* Two model calls, or reports instead, around the ends of months; quantities next
\* to what the plans include; 2^27 stands for 2^64.
SPECIFICATION Spec
CONSTANTS
    Word = 134217728
    EvidenceId = {a, b}
    Tokens = {0, 7}
    Reported = {101, 100001, 134217727}
    StartDates <- LeapDay
    Months <- LeapDayMonths
    MaxTicks = 1
    MaxCalls = 2
    MaxRequests = 2
    MaxIngests = 2
    MaxFaults = 1
SYMMETRY Symmetry
CHECK_DEADLOCK FALSE
INVARIANTS
    TypeOK
    MeteredUnlessHit
    
    EvidenceExactOnSqlite
PROPERTIES
    QuoteNeverFalls
