SPECIFICATION FairSpec

CONSTANTS
    a = a
    b = b
    NULL = NULL
    Campaign = {1, 2}
    Call = {a, b}
    CampaignOf <- TwoCampaigns
    PhoneOf <- OwnPhone
    MaxConcurrent <- One
    MaxAttempts <- TwoThenNone
    MaxEpoch = 5
    MaxReclaims <- OnceA
    Outcomes = {}
    Refusals = {"UNAVAILABLE"}
    Scheduler = {s1}
    Windows <- AlwaysOpen
    Processor = {p1}
    Reported = {}
    Copies = 1
    InOrder = FALSE

PROPERTIES
    CampaignServed
