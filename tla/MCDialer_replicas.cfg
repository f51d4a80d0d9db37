SPECIFICATION Spec

CONSTANTS
    a = a
    b = b
    NULL = NULL
    Campaign = {1, 2}
    Call = {a, b}
    CampaignOf <- TwoCampaigns
    PhoneOf <- SharedPhone
    MaxConcurrent <- Two
    MaxAttempts <- One
    MaxEpoch = 3
    MaxReclaims <- AsEpochsLast
    Outcomes = {}
    Refusals = {"UNAVAILABLE"}
    Scheduler = {s1, s2}
    Windows <- AlwaysOpen
    Processor = {p1}
    Reported = {}
    Copies = 1
    InOrder = FALSE

SYMMETRY Replicas

INVARIANTS
    FreshKey
    RollupExact
    
