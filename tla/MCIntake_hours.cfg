SPECIFICATION IntakeSpec

CONSTANTS
    DayLength = 4
    Zone = {"east", "west"}
    Offset <- Offsets
    Body <- Requests
    Canonical <- Aliases
    E164 <- Written
    INVALID = INVALID
    NULL = NULL

INVARIANT HoursExact
