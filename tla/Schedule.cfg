SPECIFICATION MCSpec
CONSTANTS
    Day = 4
    CheckTime = 1
    RenewalLeadDays = 2
    MaxRound = 1
    Life = 11
    Shift = 1
    Zone <- MCZone
    Expiry = {5, 15}
    Horizon = 20
    None = None
INVARIANTS
    TypeOK
    InTime
    PromiseKept
    StopsSoon
PROPERTIES
    NotEarly
