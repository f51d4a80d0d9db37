SPECIFICATION FairSpec

CONSTANTS
    a = a
    b = b
    NULL = NULL
    Campaign = {1}
    Call = {a}
    CampaignOf <- OneCampaign
    PhoneOf <- OwnPhone
    MaxConcurrent <- One
    MaxAttempts <- One
    MaxEpoch = 3
    MaxReclaims <- AsEpochsLast
    Outcomes = {"COMPLETED", "NO_ANSWER", "FAILED"}
    Refusals = {"REJECTED", "UNAVAILABLE"}
    Scheduler = {s1}
    Windows <- AnyHours
    Processor = {p1, p2}
    Reported = {"IN_PROGRESS", "COMPLETED", "NO_ANSWER"}
    Copies = 1
    InOrder = FALSE

INVARIANTS
    TypeOK
    HandleCurrent
    OutcomeIsReal
    RetryBudget

PROPERTIES
    StaleAttemptNeverApplied
    TerminalAbsorbing
    DialingResolved
