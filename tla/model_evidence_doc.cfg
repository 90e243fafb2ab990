\* One model call and two lines of evidence.
SPECIFICATION Spec
CONSTANTS
    Word = 134217728
    EvidenceId = {a, b}
    Tokens = {7}
    Reported = {}
    StartDates <- LeapDay
    Months <- LeapDayMonths
    MaxTicks = 0
    MaxCalls = 1
    MaxRequests = 1
    MaxIngests = 2
    MaxFaults = 0
CHECK_DEADLOCK FALSE
INVARIANT EvidenceVerified
