SPECIFICATION Spec

CONSTANTS
    a = a
    b = b
    NULL = NULL
    Campaign = {1}
    Call = {a, b}
    CampaignOf <- OneCampaign
    PhoneOf <- OwnPhone
    MaxConcurrent <- One
    MaxAttempts <- One
    MaxEpoch = 2
    MaxReclaims <- AsEpochsLast
    Outcomes = {"NO_ANSWER"}
    Refusals = {}
    Scheduler = {s1}
    Windows <- AnyHours
    Processor = {p1, p2}
    Reported = {"DIALING", "NO_ANSWER"}
    Copies = 1
    InOrder = FALSE

SYMMETRY Interchangeable

INVARIANTS
    CapRespected
