SPECIFICATION Spec

CONSTANTS
    a = a
    b = b
    NULL = NULL
    Campaign = {1}
    Call = {a, b}
    CampaignOf <- OneCampaign
    PhoneOf <- OwnPhone
    MaxConcurrent <- One
    MaxAttempts <- One
    MaxEpoch = 2
    MaxReclaims <- AsEpochsLast
    Outcomes = {"COMPLETED", "NO_ANSWER"}
    Refusals = {"REJECTED"}
    Scheduler = {s1}
    Windows <- AnyHours
    Processor = {p1, p2}
    Reported = {"DIALING", "COMPLETED", "NO_ANSWER"}
    Copies = 1
    InOrder = TRUE

SYMMETRY Interchangeable

INVARIANTS
    CapRespected
    RollupExact
    OutcomeCountedOnce

PROPERTY
    CampaignsEnd
