SPECIFICATION MCSpec
CONSTANTS
    Day = 2
    CheckTime = 1
    RenewalLeadDays = 6
    MaxRound = 1
    Life = 16
    Shift = 0
    Zone <- MCZone
    Expiry = {3, 4, 15}
    Horizon = 16
    None = None
    Interval = 5
    MaxSync = 1
INVARIANTS
    DeliveryTypeOK
    Follows
    LiveInTime
